---- MODULE Spec2Model ----
(***************************************************************************)
(* Model of the virtual-replica scheduler of eventing-kafka:               *)
(*   - the state snapshotter   (pkg/common/scheduler/state/state.go)       *)
(*   - the statefulset scheduler (pkg/common/scheduler/statefulset)        *)
(*                                                                         *)
(* Worker (pod) names "<pool>-<ordinal>" are represented by their ordinal. *)
(* Node names are represented by 1..NumNodesInCluster and zone names by    *)
(* positive integers; the empty string (Go zero value returned when a      *)
(* lookup fails) is represented by 0, so that the numeric order is the     *)
(* order of sort.Strings.                                                  *)
(***************************************************************************)
EXTENDS Integers, Sequences, FiniteSets, TLC

\* ------------------------------------------------------------------ bounds
Capacity == 2
MaxReplicas == 2
MaxDesired == 3
NumVPods == 2
MaxLen == 2
MaxCalls == 3

VPods == 1..NumVPods
Ords == 0..(MaxReplicas - 1)

MaxInt32 == 2147483647
MinInt32 == -MaxInt32 - 1

\* ----------------------------------------------------------------- state
VARIABLES
  policyType,   \* stateBuilder.schedulerPolicy: "MAXFILLUP", "EVENSPREAD", "EVENSPREAD_BYNODE" or ""
  policy,       \* StatefulSetScheduler.policy: [Predicates, Priorities]
  nodes,        \* node inventory: node -> [unsched, zone]
  podNode,      \* pod inventory: ordinal -> node (0: pod unknown or not bound to a node)
  replicas,     \* StatefulSetScheduler.replicas
  committed,    \* vpod listing: vpod -> committed placement list
  unplaced,     \* vpods whose placement list is still nil
  reserved,     \* StatefulSetScheduler.reserved: vpod -> (ordinal -> vreplicas)
  pending,      \* StatefulSetScheduler.pending: vpod -> vreplicas
  returned,     \* vpod -> placement list last returned by Schedule and not yet committed
  lock,         \* StatefulSetScheduler.lock is held
  inside,       \* callers between Lock and Unlock: caller -> replicas read on entry
  call,         \* record of the operation that ran last
  ncalls        \* number of Schedule calls made so far

vars == <<policyType, policy, nodes, podNode, replicas, committed, unplaced,
          reserved, pending, returned, lock, inside, call, ncalls>>

\* --------------------------------------------------------------- helpers
Min(a, b) == IF a < b THEN a ELSE b
Max(a, b) == IF a > b THEN a ELSE b

RECURSIVE SumSeq(_, _)
SumSeq(s, i) == IF i > Len(s) THEN 0 ELSE s[i].vr + SumSeq(s, i + 1)

GetTotalVReplicas(placements) == SumSeq(placements, 1)

PlacedOrds(ps) == {ps[i].ord : i \in 1..Len(ps)}

\* committed vreplicas of a placement list on an ordinal (first entry wins), 0 if none
PlacedAt(ps, o) ==
  IF o \in PlacedOrds(ps)
  THEN ps[CHOOSE i \in 1..Len(ps) : ps[i].ord = o /\ \A j \in 1..(i - 1) : ps[j].ord # o].vr
  ELSE 0

\* the empty map
EmptyMap == [x \in {} |-> 0]

MapDelete(m, k) == [x \in (DOMAIN m) \ {k} |-> m[x]]
MapPut(m, k, val) == [x \in (DOMAIN m) \cup {k} |-> IF x = k THEN val ELSE m[x]]

\* ------------------------------------------------- state.go: State snapshot
Free(st, ordinal) ==
  IF Len(st.FreeCap) <= ordinal THEN st.Capacity ELSE st.FreeCap[ordinal + 1]

grow(slice, ordinal, def) ==
  LET diff == ordinal - Len(slice) + 1
  IN IF diff <= 0 THEN slice ELSE slice \o [i \in 1..diff |-> def]

SetFree(st, ordinal, value) ==
  [st EXCEPT !.FreeCap = [grow(st.FreeCap, ordinal, st.Capacity) EXCEPT ![ordinal + 1] = value]]

\* mutant: a reservation larger than the commit is added to the commit
withReserved_sum(key, podName, committedV, res) ==
  IF key \in DOMAIN res /\ podName \in DOMAIN res[key]
  THEN LET rvreplicas == res[key][podName]
       IN IF committedV < rvreplicas
          THEN [vreplicas |-> committedV + rvreplicas, reserved |-> res]
          ELSE IF committedV = rvreplicas
          THEN LET rps == MapDelete(res[key], podName)
               IN [vreplicas |-> committedV,
                   reserved |-> IF DOMAIN rps = {} THEN MapDelete(res, key)
                                ELSE MapPut(res, key, rps)]
          ELSE [vreplicas |-> committedV, reserved |-> res]
  ELSE [vreplicas |-> committedV, reserved |-> res]

\* mutant: an observed commit does not remove the reservation entry
withReserved_keep(key, podName, committedV, res) ==
  IF key \in DOMAIN res /\ podName \in DOMAIN res[key]
  THEN LET rvreplicas == res[key][podName]
       IN IF committedV < rvreplicas
          THEN [vreplicas |-> rvreplicas, reserved |-> res]
          ELSE [vreplicas |-> committedV, reserved |-> res]
  ELSE [vreplicas |-> committedV, reserved |-> res]

\* mutant: a reservation smaller than the commit is removed as well
withReserved_clearStale(key, podName, committedV, res) ==
  IF key \in DOMAIN res /\ podName \in DOMAIN res[key]
  THEN LET rvreplicas == res[key][podName]
       IN IF committedV < rvreplicas
          THEN [vreplicas |-> rvreplicas, reserved |-> res]
          ELSE LET rps == MapDelete(res[key], podName)
               IN [vreplicas |-> committedV,
                   reserved |-> IF DOMAIN rps = {} THEN MapDelete(res, key)
                                ELSE MapPut(res, key, rps)]
  ELSE [vreplicas |-> committedV, reserved |-> res]

\* returns the vreplicas to account for and the (mutated) reservation table
withReserved(key, podName, committedV, res) ==
  IF key \in DOMAIN res /\ podName \in DOMAIN res[key]
  THEN LET rvreplicas == res[key][podName]
       IN IF committedV < rvreplicas
          THEN [vreplicas |-> rvreplicas, reserved |-> res]
          ELSE IF committedV = rvreplicas
          THEN LET rps == MapDelete(res[key], podName)
               IN [vreplicas |-> committedV,
                   reserved |-> IF DOMAIN rps = {} THEN MapDelete(res, key)
                                ELSE MapPut(res, key, rps)]
          ELSE [vreplicas |-> committedV, reserved |-> res]
  ELSE [vreplicas |-> committedV, reserved |-> res]

\* mutant: the last ordinal is raised by every placement, empty or not
updateFreeCapacity_lastAny(free, last, ordinal, vreplicas) ==
  LET f1 == grow(free, ordinal, Capacity)
      f2 == [f1 EXCEPT ![ordinal + 1] = f1[ordinal + 1] - vreplicas]
  IN [free |-> f2, last |-> IF ordinal > last THEN ordinal ELSE last]

updateFreeCapacity(free, last, ordinal, vreplicas) ==
  LET f1 == grow(free, ordinal, Capacity)
      f2 == [f1 EXCEPT ![ordinal + 1] = f1[ordinal + 1] - vreplicas]
  IN [free |-> f2,
      last |-> IF ordinal > last /\ f2[ordinal + 1] # Capacity THEN ordinal ELSE last]

\* first loop of State, one vpod: acc = [free, last, reserved]
RECURSIVE StatePlacements(_, _, _, _)
StatePlacements(key, ps, i, acc) ==
  IF i > Len(ps) THEN acc
  ELSE LET wr == withReserved(key, ps[i].ord, ps[i].vr, acc.reserved)
           fl == updateFreeCapacity(acc.free, acc.last, ps[i].ord, wr.vreplicas)
       IN StatePlacements(key, ps, i + 1,
                          [free |-> fl.free, last |-> fl.last, reserved |-> wr.reserved])

\* first loop of State, over the vpods of the listing (in lister order)
RECURSIVE StateVPods(_, _, _)
StateVPods(listing, todo, acc) ==
  IF todo = {} THEN acc
  ELSE LET key == CHOOSE k \in todo : \A k2 \in todo : k <= k2
       IN StateVPods(listing, todo \ {key}, StatePlacements(key, listing[key], 1, acc))

\* The second loop of State ranges over Go maps, whose iteration order is
\* unspecified, and leaves the inner loop (break) at the first entry that has
\* a committed placement.  A traversal gives, per vpod key, the entries that
\* are visited before the loop is left and so are accounted for.
ReservedTraversals(listing, res) ==
  {t \in [DOMAIN res -> SUBSET UNION {DOMAIN res[k] : k \in DOMAIN res}] :
     \A key \in DOMAIN res :
        LET noPlacement == {w \in DOMAIN res[key] :
                              ~(key \in DOMAIN listing /\ w \in PlacedOrds(listing[key]))}
        IN IF noPlacement = DOMAIN res[key]
           THEN t[key] = noPlacement
           ELSE t[key] \subseteq noPlacement}

\* second loop of State: todo is a set of <<key, podName>> visited entries
RECURSIVE StateReserved(_, _, _)
StateReserved(res, todo, acc) ==
  IF todo = {} THEN acc
  ELSE LET e == CHOOSE x \in todo : TRUE
           fl == updateFreeCapacity(acc.free, acc.last, e[2], res[e[1]][e[2]])
       IN StateReserved(res, todo \ {e}, [acc EXCEPT !.free = fl.free, !.last = fl.last])

\* mutant: unschedulable nodes are counted as well
NodeToZoneMap_cordoned(nodeInv) ==
  LET ok == {n \in DOMAIN nodeInv : nodeInv[n].zone # 0}
  IN [n \in ok |-> nodeInv[n].zone]

\* nodes of the inventory that are schedulable and carry the zone label
NodeToZoneMap(nodeInv) ==
  LET ok == {n \in DOMAIN nodeInv : ~nodeInv[n].unsched /\ nodeInv[n].zone # 0}
  IN [n \in ok |-> nodeInv[n].zone]

\* stateBuilder.State: the possible results, one per traversal of the reservation
\* table, each the snapshot and the reservation table the call leaves behind
State(listing, res, polType, nodeInv) ==
  LET a1 == StateVPods(listing, DOMAIN listing,
                       [free |-> <<>>, last |-> -1, reserved |-> res])
      spread == polType \in {"EVENSPREAD", "EVENSPREAD_BYNODE"}
      n2z == IF spread THEN NodeToZoneMap(nodeInv) ELSE EmptyMap
  IN {LET visited == UNION {{<<k, w>> : w \in trav[k]} : k \in DOMAIN trav}
          a2 == StateReserved(a1.reserved, visited, a1)
      IN [st |-> [FreeCap |-> a2.free, LastOrdinal |-> a2.last, Capacity |-> Capacity,
                  NumZones |-> Cardinality({n2z[n] : n \in DOMAIN n2z}),
                  NumNodes |-> Cardinality(DOMAIN n2z),
                  SchedulerPolicy |-> polType, NodeToZoneMap |-> n2z],
          reserved |-> a2.reserved]
      : trav \in ReservedTraversals(listing, a1.reserved)}

\* no lister fails
NoFail == [at |-> -1, lister |-> "none"]

\* stateBuilder.State with a lister that may fail: fail is "none", "vpods" (the
\* vpod lister, line 111) or "nodes" (the node lister, line 156, consulted under
\* the spread policies only, after both loops have run); err is set when the
\* call returns an error and reserved is the table as the call leaves it
StateOrError(listing, res, polType, nodeInv, fail) ==
  IF fail = "vpods"
  THEN {[err |-> TRUE, reserved |-> res]}
  ELSE {[err |-> fail = "nodes" /\ polType \in {"EVENSPREAD", "EVENSPREAD_BYNODE"},
         st |-> so.st, reserved |-> so.reserved]
        : so \in State(listing, res, polType, nodeInv)}

\* the lister that fails in the n-th state build of a Schedule call
FailingLister(fail, n) == IF fail.at = n THEN fail.lister ELSE "none"

\* ------------------------------------------- scheduler: MAXFILLUP placement
\* mutant: the first loop of addReplicas does not record what it allocated
RECURSIVE addReplicasExisting_noSetFree(_, _, _)
addReplicasExisting_noSetFree(placements, i, acc) ==
  IF i > Len(placements) THEN acc
  ELSE LET ordinal == placements[i].ord
           f == Free(acc.st, ordinal)
       IN IF acc.diff >= 0 /\ f > 1
          THEN addReplicasExisting_noSetFree(placements, i + 1,
                    [st |-> acc.st, diff |-> acc.diff - 1,
                     ps |-> Append(acc.ps, [ord |-> ordinal, vr |-> placements[i].vr + 1])])
          ELSE addReplicasExisting_noSetFree(placements, i + 1,
                    [acc EXCEPT !.ps = Append(acc.ps, placements[i])])

\* first loop of addReplicas: acc = [st, diff, ps]
RECURSIVE addReplicasExisting(_, _, _)
addReplicasExisting(placements, i, acc) ==
  IF i > Len(placements) THEN acc
  ELSE LET ordinal == placements[i].ord
           f == Free(acc.st, ordinal)
       IN IF acc.diff >= 0 /\ f > 0
          THEN LET allocation == Min(f, acc.diff)
               IN addReplicasExisting(placements, i + 1,
                    [st |-> SetFree(acc.st, ordinal, f - allocation),
                     diff |-> acc.diff - allocation,
                     ps |-> Append(acc.ps, [ord |-> ordinal,
                                            vr |-> placements[i].vr + allocation])])
          ELSE addReplicasExisting(placements, i + 1,
                    [acc EXCEPT !.ps = Append(acc.ps, placements[i])])

\* second loop of addReplicas, over the ordinals ordinal..reps-1
RECURSIVE addReplicasNew(_, _, _)
addReplicasNew(ordinal, reps, acc) ==
  IF ordinal >= reps THEN acc
  ELSE LET f == Free(acc.st, ordinal)
           a1 == IF f > 0
                 THEN LET allocation == Min(f, acc.diff)
                      IN [st |-> SetFree(acc.st, ordinal, f - allocation),
                          diff |-> acc.diff - allocation,
                          ps |-> Append(acc.ps, [ord |-> ordinal, vr |-> allocation])]
                 ELSE acc
       IN IF a1.diff = 0 THEN a1 ELSE addReplicasNew(ordinal + 1, reps, a1)

\* mutant: the existing placements are copied and all vreplicas go to the scan
addReplicas_scanOnly(st, diff, placements, reps) ==
  addReplicasNew(0, reps, [st |-> st, diff |-> diff, ps |-> placements])

\* returns [ps |-> new placements, diff |-> vreplicas left]
addReplicas(st, diff, placements, reps) ==
  LET a1 == addReplicasExisting(placements, 1, [st |-> st, diff |-> diff, ps |-> <<>>])
  IN IF a1.diff > 0 THEN addReplicasNew(0, reps, a1) ELSE a1

\* loop of removeReplicas, from the last placement to the first: acc = [diff, ps]
RECURSIVE removeReplicasLoop(_, _, _)
removeReplicasLoop(placements, i, acc) ==
  IF i < 1 THEN acc
  ELSE IF acc.diff >= placements[i].vr
       THEN removeReplicasLoop(placements, i - 1,
                               [acc EXCEPT !.diff = acc.diff - placements[i].vr])
       ELSE removeReplicasLoop(placements, i - 1,
                               [diff |-> 0,
                                ps |-> Append(acc.ps, [ord |-> placements[i].ord,
                                                       vr |-> placements[i].vr - acc.diff])])

\* mutant: the surplus is taken from the first placement on
removeReplicas_fromFirst(diff, placements) ==
  LET rev == [i \in 1..Len(placements) |-> placements[Len(placements) + 1 - i]]
  IN removeReplicasLoop(rev, Len(rev), [diff |-> diff, ps |-> <<>>]).ps

\* mutant: the vreplicas that are kept are moved to the first worker of the pool
removeReplicas_moved(diff, placements) ==
  <<[ord |-> 0, vr |-> GetTotalVReplicas(placements) - diff]>>

removeReplicas(diff, placements) ==
  removeReplicasLoop(placements, Len(placements), [diff |-> diff, ps |-> <<>>]).ps

\* ------------------------------- scheduler: EVENSPREAD / EVENSPREAD_BYNODE
\* int32 subtraction a - b for a >= 0 and b = MinInt32 or b > MinInt32 (wraps around)
Sub32(a, b) ==
  IF b = MinInt32 THEN a + MinInt32 ELSE a - b

\* int32(math.Floor(float64(n) / float64(d))): for d = 0 the quotient is +Inf
\* (NaN for n = 0) and the conversion is implementation-dependent: amd64
\* yields MinInt32, arm64 saturates (+Inf to MaxInt32, NaN to 0)
FloorDivInt32(n, d) ==
  IF d # 0 THEN {n \div d}
  ELSE IF n = 0 THEN {MinInt32, 0} ELSE {MinInt32, MaxInt32}

\* int32(math.Ceil(float64(n) / float64(d)))
CeilDivInt32(n, d) ==
  IF d # 0 THEN {(n + d - 1) \div d}
  ELSE IF n = 0 THEN {MinInt32, 0} ELSE {MinInt32, MaxInt32}

\* getPodInfo: zone and node of a pod, err when the pod or its zone is unknown
getPodInfo(st, ordinal) ==
  IF ordinal \notin DOMAIN podNode \/ podNode[ordinal] = 0
  THEN [zoneName |-> 0, nodeName |-> 0, err |-> TRUE]
  ELSE IF podNode[ordinal] \in DOMAIN st.NodeToZoneMap
       THEN [zoneName |-> st.NodeToZoneMap[podNode[ordinal]],
             nodeName |-> podNode[ordinal], err |-> FALSE]
       ELSE [zoneName |-> 0, nodeName |-> podNode[ordinal], err |-> TRUE]

\* the domain (node under EVENSPREAD_BYNODE, zone otherwise) of a pod
DomainOf(st, ordinal) ==
  IF st.SchedulerPolicy = "EVENSPREAD_BYNODE"
  THEN getPodInfo(st, ordinal).nodeName
  ELSE getPodInfo(st, ordinal).zoneName

\* getPlacementsByZoneKey / getPlacementsByNodeKey: domain -> ordinals in list order
RECURSIVE OrdsOfDomain(_, _, _, _)
OrdsOfDomain(st, placements, d, i) ==
  IF i > Len(placements) THEN <<>>
  ELSE IF DomainOf(st, placements[i].ord) = d
       THEN <<placements[i].ord>> \o OrdsOfDomain(st, placements, d, i + 1)
       ELSE OrdsOfDomain(st, placements, d, i + 1)

getPlacementsByDomain(st, placements) ==
  [d \in {DomainOf(st, placements[i].ord) : i \in 1..Len(placements)} |->
     OrdsOfDomain(st, placements, d, 1)]

\* getTotalVReplicasInZone / getTotalVReplicasInNode
RECURSIVE getTotalVReplicasInDomain(_, _, _, _)
getTotalVReplicasInDomain(st, placements, d, i) ==
  IF i > Len(placements) THEN 0
  ELSE (IF DomainOf(st, placements[i].ord) = d THEN placements[i].vr ELSE 0)
       + getTotalVReplicasInDomain(st, placements, d, i + 1)

\* getPlacementFromPodOrdinal: the first placement on the ordinal
getPlacementFromPodOrdinal(placements, ordinal) ==
  [ord |-> ordinal, vr |-> PlacedAt(placements, ordinal)]

\* inner loop of addToExistingReplicas over the pods of one domain
RECURSIVE addToExistingPods(_, _, _, _, _, _)
addToExistingPods(placements, podOrds, j, totalInDomain, evenSpread, acc) ==
  IF j > Len(podOrds) THEN acc
  ELSE LET ordinal == podOrds[j]
           placement == getPlacementFromPodOrdinal(placements, ordinal)
           f == Free(acc.st, ordinal)
       IN IF acc.diff >= 0 /\ f > 0 /\ totalInDomain < evenSpread
          THEN LET allocation == Min(acc.diff, Min(f, evenSpread - totalInDomain))
               IN addToExistingPods(placements, podOrds, j + 1,
                    totalInDomain + allocation, evenSpread,
                    [st |-> SetFree(acc.st, ordinal, f - allocation),
                     diff |-> acc.diff - allocation,
                     ps |-> Append(acc.ps, [ord |-> ordinal,
                                            vr |-> placement.vr + allocation])])
          ELSE addToExistingPods(placements, podOrds, j + 1, totalInDomain, evenSpread,
                    [acc EXCEPT !.ps = Append(acc.ps, placement)])

\* outer loop of addToExistingReplicas over the domain names in sorted order
RECURSIVE addToExistingDomains(_, _, _, _, _)
addToExistingDomains(st0, placements, domainNames, evenSpread, acc) ==
  IF domainNames = {} THEN acc
  ELSE LET d == CHOOSE x \in domainNames : \A y \in domainNames : x <= y
       IN addToExistingDomains(st0, placements, domainNames \ {d}, evenSpread,
            addToExistingPods(placements, getPlacementsByDomain(st0, placements)[d], 1,
                              getTotalVReplicasInDomain(st0, placements, d, 1),
                              evenSpread, acc))

addToExistingReplicas(st, diff, placements, evenSpread) ==
  addToExistingDomains(st, placements, DOMAIN getPlacementsByDomain(st, placements),
                       evenSpread, [st |-> st, diff |-> diff, ps |-> <<>>])

\* loop of addToNewReplicas over the ordinals ordinal..reps-1
RECURSIVE addToNewReplicasLoop(_, _, _, _)
addToNewReplicasLoop(ordinal, reps, evenSpread, acc) ==
  IF ordinal >= reps THEN acc
  ELSE LET f == Free(acc.st, ordinal)
           info == getPodInfo(acc.st, ordinal)
           totalInDomain == getTotalVReplicasInDomain(acc.st, acc.ps,
                                                      DomainOf(acc.st, ordinal), 1)
           allocation == Min(acc.diff, Min(f, evenSpread - totalInDomain))
           a1 == IF f > 0 /\ ~info.err /\ totalInDomain < evenSpread
                 THEN [st |-> SetFree(acc.st, ordinal, f - allocation),
                       diff |-> acc.diff - allocation,
                       ps |-> Append(acc.ps, [ord |-> ordinal, vr |-> allocation])]
                 ELSE acc
           \* the two "continue" statements skip the test of diff
           skipped == f > 0 /\ (info.err \/ totalInDomain >= evenSpread)
       IN IF ~skipped /\ a1.diff = 0 THEN a1
          ELSE addToNewReplicasLoop(ordinal + 1, reps, evenSpread, a1)

\* variant: new pods are filled without looking at the spread value
addToNewReplicas_uncapped(st, diff, newPlacements, evenSpread, reps) ==
  addToNewReplicasLoop(0, reps, MaxInt32, [st |-> st, diff |-> diff, ps |-> newPlacements])

addToNewReplicas(st, diff, newPlacements, evenSpread, reps) ==
  addToNewReplicasLoop(0, reps, evenSpread, [st |-> st, diff |-> diff, ps |-> newPlacements])

addReplicasEvenSpread(st, diff, placements, evenSpread, reps) ==
  LET a1 == addToExistingReplicas(st, diff, placements, evenSpread)
  IN IF a1.diff > 0 THEN addToNewReplicas(a1.st, a1.diff, a1.ps, evenSpread, reps)
     ELSE a1

\* inner loop of removeFromExistingReplicas, from the last pod of a domain to the first
RECURSIVE removeFromExistingPods(_, _, _, _, _, _)
removeFromExistingPods(placements, podOrds, j, totalInDomain, evenSpread, acc) ==
  IF j < 1 THEN acc
  ELSE LET ordinal == podOrds[j]
           placement == getPlacementFromPodOrdinal(placements, ordinal)
           deallocation == Min(acc.diff, Min(placement.vr, Sub32(totalInDomain, evenSpread)))
       IN IF acc.diff > 0 /\ totalInDomain >= evenSpread
          THEN IF deallocation > 0 /\ deallocation < placement.vr
               THEN removeFromExistingPods(placements, podOrds, j - 1,
                      totalInDomain - deallocation, evenSpread,
                      [diff |-> acc.diff - deallocation,
                       ps |-> Append(acc.ps, [ord |-> ordinal,
                                              vr |-> placement.vr - deallocation])])
               ELSE IF deallocation >= placement.vr
               THEN removeFromExistingPods(placements, podOrds, j - 1,
                      totalInDomain - placement.vr, evenSpread,
                      [acc EXCEPT !.diff = acc.diff - placement.vr])
               ELSE removeFromExistingPods(placements, podOrds, j - 1,
                      totalInDomain, evenSpread,
                      [acc EXCEPT !.ps = Append(acc.ps, placement)])
          ELSE removeFromExistingPods(placements, podOrds, j - 1, totalInDomain, evenSpread,
                      [acc EXCEPT !.ps = Append(acc.ps, placement)])

\* outer loop of removeFromExistingReplicas over the domain names in sorted order
RECURSIVE removeFromExistingDomains(_, _, _, _, _)
removeFromExistingDomains(st, placements, domainNames, evenSpread, acc) ==
  IF domainNames = {} THEN acc
  ELSE LET d == CHOOSE x \in domainNames : \A y \in domainNames : x <= y
           podOrds == getPlacementsByDomain(st, placements)[d]
       IN removeFromExistingDomains(st, placements, domainNames \ {d}, evenSpread,
            removeFromExistingPods(placements, podOrds, Len(podOrds),
                                   getTotalVReplicasInDomain(st, placements, d, 1),
                                   evenSpread, acc))

removeFromExistingReplicas(st, diff, placements, evenSpread) ==
  removeFromExistingDomains(st, placements, DOMAIN getPlacementsByDomain(st, placements),
                            evenSpread, [diff |-> diff, ps |-> <<>>]).ps

removeReplicasEvenSpread(st, diff, placements, evenSpread) ==
  removeFromExistingReplicas(st, diff, placements, evenSpread)

\* ------------------------------------------------ scheduler: reservations
\* loop of reservePlacements over the returned placements
RECURSIVE reservePlacementsLoop(_, _, _, _, _)
reservePlacementsLoop(key, existing, placements, i, res) ==
  IF i > Len(placements) THEN res
  ELSE LET p == placements[i]
           placed == PlacedAt(existing, p.ord)
       IN IF p.vr > placed
          THEN reservePlacementsLoop(key, existing, placements, i + 1,
                 MapPut(res, key,
                        MapPut(IF key \in DOMAIN res THEN res[key] ELSE EmptyMap,
                               p.ord, p.vr)))
          ELSE reservePlacementsLoop(key, existing, placements, i + 1, res)

\* variant: only the vreplicas above the existing ones are recorded
reservePlacements_delta(key, existing, placements, res) ==
  LET inc == {placements[i].ord : i \in {j \in 1..Len(placements) :
                 placements[j].vr > PlacedAt(existing, placements[j].ord)}}
      old == IF key \in DOMAIN res THEN res[key] ELSE EmptyMap
  IN IF inc = {} THEN res
     ELSE MapPut(res, key,
                 [o \in DOMAIN old \cup inc |->
                    IF o \in inc THEN PlacedAt(placements, o) - PlacedAt(existing, o)
                    ELSE old[o]])

\* existing is vpod.GetPlacements(); returns the new reservation table
reservePlacements(key, existing, placements, res) ==
  reservePlacementsLoop(key, existing, placements, 1, res)

\* sort.SliceStable by ordinal: insertion behind the entries that are not greater
RECURSIVE InsertStable(_, _)
InsertStable(sorted, p) ==
  IF sorted = <<>> THEN <<p>>
  ELSE IF sorted[Len(sorted)].ord <= p.ord THEN Append(sorted, p)
       ELSE Append(InsertStable(SubSeq(sorted, 1, Len(sorted) - 1), p), sorted[Len(sorted)])

RECURSIVE SortStableFrom(_, _, _)
SortStableFrom(ps, i, sorted) ==
  IF i > Len(ps) THEN sorted ELSE SortStableFrom(ps, i + 1, InsertStable(sorted, ps[i]))

\* mutant: the placements are returned in the order the engine produced them
SortPlacements_none(ps) == ps

SortPlacements(ps) == SortStableFrom(ps, 1, <<>>)

\* pendingVReplicas: the sum of the pending table
RECURSIVE pendingVReplicas(_)
pendingVReplicas(pend) ==
  IF DOMAIN pend = {} THEN 0
  ELSE LET k == CHOOSE x \in DOMAIN pend : TRUE
       IN pend[k] + pendingVReplicas(MapDelete(pend, k))

\* ---------------------------------- scheduler: predicates and priorities
Success == 0
Unschedulable == 1
Error == 2

\* the weight bound of ValidatePolicy; it is declared outside the modelled files
MaxTotalWeight == 100

RegisteredFilterPlugins == {"PodFitsResources", "NoMaxResourceCount", "EvenPodSpread"}
RegisteredScorePlugins ==
  {"LowestOrdinalPriority", "AvailabilityZonePriority", "AvailabilityNodePriority"}

\* the policy of a scheduler that was given none
NoPolicy == [nil |-> TRUE, Predicates |-> <<>>, Priorities |-> <<>>]

\* mutant: a weight that has overflown is accepted
ValidatePolicy_noUpper(pol) ==
  \E i \in 1..Len(pol.Priorities) : pol.Priorities[i].Weight <= 0

\* TRUE when validation reports at least one error
ValidatePolicy(pol) ==
  \E i \in 1..Len(pol.Priorities) :
     pol.Priorities[i].Weight <= 0 \/ pol.Priorities[i].Weight >= MaxTotalWeight

\* PodFitsResources.Filter
PodFitsResourcesFilter(st, podID) ==
  IF Len(st.FreeCap) = 0 \/ Free(st, podID) > 0 THEN Success ELSE Unschedulable

\* Filter of a registered filter plugin
runFilterPlugin(name, st, podID) ==
  IF name = "PodFitsResources" THEN PodFitsResourcesFilter(st, podID) ELSE Success

\* RunFilterPlugins followed by Merge: the code of the merged status; the
\* plugins run in policy order and the first that fails ends the run
RECURSIVE RunFilterPlugins(_, _, _, _)
RunFilterPlugins(pol, st, podID, i) ==
  IF i > Len(pol.Predicates) THEN Success
  ELSE IF pol.Predicates[i] \notin RegisteredFilterPlugins
       THEN RunFilterPlugins(pol, st, podID, i + 1)
       ELSE LET code == runFilterPlugin(pol.Predicates[i], st, podID)
            IN IF code # Success THEN code
               ELSE RunFilterPlugins(pol, st, podID, i + 1)

\* findFeasiblePods: the ordinals podId..reps-1 that pass the filters, ascending
findFeasiblePods(pol, st, podId, reps) ==
  LET feasible(p) == RunFilterPlugins(pol, st, p, 1) = Success
  IN SelectSeq([i \in 1..(reps - podId) |-> podId + i - 1], feasible)

\* x + y of two int32 values, an int32 value: the sum modulo 2^32
Add32(x, y) ==
  IF y > 0 /\ x > MaxInt32 - y THEN ((x + MinInt32) + y) + MinInt32
  ELSE IF y < 0 /\ x < MinInt32 - y THEN ((x - MinInt32) + y) - MinInt32
  ELSE x + y

\* a * 100 of an int32 value, an int32 value: the product modulo 2^32,
\* computed on the two 16-bit halves of a
Mul100(a) ==
  LET lo == a % 65536
      hi == a \div 65536
      top == (hi * 100) % 65536
      signed == IF top >= 32768 THEN top - 65536 ELSE top
  IN Add32(signed * 65536, lo * 100)

\* LowestOrdinalPriority.Score: the score is computed on int32 values and
\* widened afterwards
lowestOrdinalScore(lastOrdinal, podID) ==
  LET score == Add32(Mul100(Add32(lastOrdinal, 2)), -podID)
  IN IF score < 0 THEN [score |-> 0, code |-> Error]
     ELSE [score |-> score, code |-> Success]

\* Score of a registered score plugin: [score, code]
runScorePlugin(name, st, podID) ==
  IF name = "LowestOrdinalPriority"
  THEN lowestOrdinalScore(st.LastOrdinal, podID)
  ELSE [score |-> 1, code |-> Success]

\* RunScorePlugins: plugin name -> weighted score of the pod; the registered
\* plugins of the policy, a later entry of the same name replacing an earlier
ScorePluginWeights(pol) ==
  LET idx == {i \in 1..Len(pol.Priorities) : pol.Priorities[i].Name \in RegisteredScorePlugins}
      names == {pol.Priorities[i].Name : i \in idx}
  IN [n \in names |->
        pol.Priorities[CHOOSE i \in idx : pol.Priorities[i].Name = n
                                         /\ \A j \in idx : pol.Priorities[j].Name = n => j <= i].Weight]

RECURSIVE SumScores(_, _, _, _)
SumScores(weights, names, st, podID) ==
  IF names = {} THEN 0
  ELSE LET n == CHOOSE x \in names : TRUE
       IN runScorePlugin(n, st, podID).score * weights[n]
          + SumScores(weights, names \ {n}, st, podID)

\* prioritizePods: [err, scores] with scores a function pod -> score
prioritizePods(pol, st, feasiblePods) ==
  LET pods == {feasiblePods[i] : i \in 1..Len(feasiblePods)}
      weights == ScorePluginWeights(pol)
  IN IF Len(pol.Priorities) = 0
     THEN [err |-> FALSE, scores |-> [p \in pods |-> 1]]
     ELSE IF \E n \in DOMAIN weights, p \in pods : runScorePlugin(n, st, p).code # Success
     THEN [err |-> TRUE, scores |-> [p \in pods |-> 0]]
     ELSE [err |-> FALSE,
           scores |-> [p \in pods |-> SumScores(weights, DOMAIN weights, st, p)]]

\* variant: a pod of minimal score is selected
selectPod_lowest(scores) ==
  {p \in DOMAIN scores : \A q \in DOMAIN scores : scores[p] <= scores[q]}

\* selectPod: the pods that can be selected, any pod of maximal score
selectPod(scores) ==
  {p \in DOMAIN scores : \A q \in DOMAIN scores : scores[q] <= scores[p]}

\* addSelectionToPlacements for the single selected pod
addSelectionToPlacements(podID, placements) ==
  IF podID \in PlacedOrds(placements)
  THEN [i \in 1..Len(placements) |->
          IF placements[i].ord = podID
          THEN [ord |-> podID, vr |-> placements[i].vr + 1]
          ELSE placements[i]]
  ELSE Append(placements, [ord |-> podID, vr |-> 1])

\* addReplicasWithPolicy: the possible results [ps, nil, diff, reserved, failed,
\* pluginError, placedOnFull]; acc carries the placements, the nil flag of the
\* slice, diff, the table, whether a state build failed, whether the score
\* plugins returned an error and whether a vreplica went to a pod without free
\* capacity in the snapshot of its iteration; the state build of iteration i
\* is build i + 1 of the Schedule call
RECURSIVE addReplicasWithPolicyLoop(_, _, _, _, _, _, _, _)
addReplicasWithPolicyLoop(key, existing, listing, pol, i, numVreps, acc, fail) ==
  IF i >= numVreps THEN {acc}
  ELSE UNION {
    LET st == so.st
        stop == {[acc EXCEPT !.diff = numVreps - i,
                             !.reserved = reservePlacements(key, existing, acc.ps, so.reserved)]}
        place(podID) ==
          LET ps2 == addSelectionToPlacements(podID, acc.ps)
          IN addReplicasWithPolicyLoop(key, existing, listing, pol, i + 1, numVreps,
               [ps |-> ps2, nil |-> FALSE, diff |-> acc.diff - 1,
                reserved |-> reservePlacements(key, existing, ps2, so.reserved),
                failed |-> FALSE, pluginError |-> FALSE,
                placedOnFull |-> \/ acc.placedOnFull
                                 \/ Len(st.FreeCap) # 0 /\ Free(st, podID) <= 0], fail)
        feasiblePods == findFeasiblePods(pol, st, 0, replicas)
        priorityList == prioritizePods(pol, st, feasiblePods)
    IN IF so.err THEN {[acc EXCEPT !.reserved = so.reserved, !.failed = TRUE]}
       ELSE IF replicas = 0 THEN stop
       ELSE IF Len(feasiblePods) = 0 THEN stop
       ELSE IF Len(feasiblePods) = 1 THEN place(feasiblePods[1])
       ELSE IF priorityList.err THEN {[a EXCEPT !.pluginError = TRUE] : a \in stop}
       ELSE UNION {place(podID) : podID \in selectPod(priorityList.scores)}
    : so \in StateOrError(listing, acc.reserved, policyType, nodes, FailingLister(fail, i + 1))}

addReplicasWithPolicy(key, existing, existingNil, listing, pol, diff, res, fail) ==
  addReplicasWithPolicyLoop(key, existing, listing, pol, 0, diff,
                            [ps |-> existing, nil |-> existingNil, diff |-> diff,
                             reserved |-> res, failed |-> FALSE, pluginError |-> FALSE,
                             placedOnFull |-> FALSE], fail)

\* ------------------------------------------------- scheduler: Schedule
\* mutant: the vreplicas left unplaced are not entered in the pending table
scheduleVPodEnd_noPending(key, ps, psNil, left, res, pend) ==
  IF left > 0
  THEN [ps |-> ps, nil |-> psNil, err |-> "ErrNotEnoughReplicas", pending |-> pend,
        reserved |-> res, autoscale |-> TRUE, autoscaleArg |-> pendingVReplicas(pend)]
  ELSE [ps |-> ps, nil |-> psNil, err |-> "nil", pending |-> MapDelete(pend, key),
        reserved |-> res, autoscale |-> FALSE, autoscaleArg |-> 0]

\* mutant: the autoscaler is given the pending sum from before the update
scheduleVPodEnd_staleSum(key, ps, psNil, left, res, pend) ==
  IF left > 0
  THEN [ps |-> ps, nil |-> psNil, err |-> "ErrNotEnoughReplicas",
        pending |-> MapPut(pend, key, left),
        reserved |-> res, autoscale |-> TRUE, autoscaleArg |-> pendingVReplicas(pend)]
  ELSE [ps |-> ps, nil |-> psNil, err |-> "nil", pending |-> MapDelete(pend, key),
        reserved |-> res, autoscale |-> FALSE, autoscaleArg |-> 0]

\* the end of scheduleVPod: pending update, autoscaler trigger and result
scheduleVPodEnd(key, ps, psNil, left, res, pend) ==
  IF left > 0
  THEN LET pend2 == MapPut(pend, key, left)
       IN [ps |-> ps, nil |-> psNil, err |-> "ErrNotEnoughReplicas", pending |-> pend2,
           reserved |-> res, autoscale |-> TRUE, autoscaleArg |-> pendingVReplicas(pend2)]
  ELSE [ps |-> ps, nil |-> psNil, err |-> "nil", pending |-> MapDelete(pend, key),
        reserved |-> res, autoscale |-> FALSE, autoscaleArg |-> 0]

\* mutant: the pending entry survives an already scheduled vpod
alreadyScheduled_keepPending(key, existing, existingNil, res, pend) ==
  [ps |-> existing, nil |-> existingNil, err |-> "nil", pending |-> pend, reserved |-> res,
   autoscale |-> FALSE, autoscaleArg |-> 0, path |-> "already"]

\* scheduleVPod, lines 215-223: the vpod has its exact number of vreplicas
alreadyScheduled(key, existing, existingNil, res, pend) ==
  [ps |-> existing, nil |-> existingNil, err |-> "nil", pending |-> MapDelete(pend, key),
   reserved |-> res, autoscale |-> FALSE, autoscaleArg |-> 0, path |-> "already"]

\* scheduleVPod, lines 193-197: the state build returned an error
snapshotFailed(res, pend) ==
  [ps |-> <<>>, nil |-> TRUE, err |-> "lister error", pending |-> pend, reserved |-> res,
   autoscale |-> FALSE, autoscaleArg |-> 0, path |-> "failed", failed |-> TRUE,
   pluginError |-> FALSE, placedOnFull |-> FALSE]

\* scheduleVPod after its state build so succeeded: the possible results [ps,
\* nil, err, pending, reserved, autoscale, autoscaleArg, path (, failed)];
\* existing is vpod.GetPlacements(), des is vpod.GetVReplicas()
scheduleVPodOn(so, key, des, existing, existingNil, listing, pend, fail) ==
    LET st == so.st
        tr == GetTotalVReplicas(existing)
        numDomains == IF st.SchedulerPolicy = "EVENSPREAD" THEN st.NumZones ELSE st.NumNodes
        spread == st.SchedulerPolicy \in {"EVENSPREAD", "EVENSPREAD_BYNODE"}
    IN IF tr = des
       THEN {alreadyScheduled(key, existing, existingNil, so.reserved, pend)}
       ELSE IF st.SchedulerPolicy # ""
       THEN IF tr > des
            THEN {[ps |-> ps2, nil |-> FALSE, err |-> "nil", pending |-> pend,
                   reserved |-> so.reserved, autoscale |-> FALSE, autoscaleArg |-> 0,
                   path |-> "down"]
                  : ps2 \in IF spread
                            THEN {removeReplicasEvenSpread(st, tr - des, existing, spreadVal)
                                  : spreadVal \in FloorDivInt32(des, numDomains)}
                            ELSE {removeReplicas(tr - des, existing)}}
            ELSE {[path |-> "up"] @@ scheduleVPodEnd(key, a.ps, FALSE, a.diff, so.reserved, pend)
                  : a \in IF spread
                          THEN {addReplicasEvenSpread(st, des - tr, existing, spreadVal, replicas)
                                : spreadVal \in CeilDivInt32(des, numDomains)}
                          ELSE {addReplicas(st, des - tr, existing, replicas)}}
       ELSE IF ~policy.nil
       THEN IF ValidatePolicy(policy)
            THEN {[ps |-> <<>>, nil |-> TRUE, err |-> "validating policy failed",
                   pending |-> pend, reserved |-> so.reserved,
                   autoscale |-> FALSE, autoscaleArg |-> 0, path |-> "invalid"]}
            ELSE {[path |-> IF tr > des THEN "down" ELSE "up", failed |-> a.failed,
                   pluginError |-> a.pluginError, placedOnFull |-> a.placedOnFull]
                  @@ scheduleVPodEnd(key, a.ps, a.nil, a.diff, a.reserved, pend)
                  : a \in addReplicasWithPolicy(key, existing, existingNil, listing, policy,
                                                des - tr, so.reserved, fail)}
       ELSE {[path |-> "none"] @@ scheduleVPodEnd(key, existing, existingNil, 0, so.reserved, pend)}

\* scheduleVPod: the possible results, failed telling whether a state build of
\* the call returned an error; fail names the build that fails and its lister
scheduleVPod(key, des, existing, existingNil, listing, res, pend, fail) ==
  UNION {
    IF so.err THEN {snapshotFailed(so.reserved, pend)}
    ELSE {o @@ [failed |-> FALSE, pluginError |-> FALSE, placedOnFull |-> FALSE]
          : o \in scheduleVPodOn(so, key, des, existing, existingNil, listing, pend, fail)}
    : so \in StateOrError(listing, res, policyType, nodes, FailingLister(fail, 0))}

\* Schedule between Lock and Unlock: scheduleVPod, the sort and the reservation
Schedule(key, des, existing, existingNil, listing, res, pend, fail) ==
  {IF o.nil THEN o
   ELSE LET sorted == SortPlacements(o.ps)
        IN [o EXCEPT !.ps = sorted,
                     !.reserved = reservePlacements(key, existing, sorted, o.reserved)]
   : o \in scheduleVPod(key, des, existing, existingNil, listing, res, pend, fail)}

\* ----------------------------------------------------------------- actions
NoCall == [op |-> "none"]

\* mutant: Lock returns although the mutex is held
LockFree_always(l) == TRUE

\* sync.Mutex.Lock returns only when the mutex is not held
LockFree(l) == ~l

\* Schedule, line 169: the caller of vpod v acquires the mutex
ScheduleLock(v, des) ==
  /\ v \notin DOMAIN inside
  /\ LockFree(lock)
  /\ ncalls < MaxCalls
  /\ ncalls' = ncalls + 1
  /\ lock' = TRUE
  /\ inside' = MapPut(inside, v, [desired |-> des, replicas |-> replicas,
                                   reserved |-> reserved, pending |-> pending])
  /\ call' = NoCall
  /\ UNCHANGED <<policyType, policy, nodes, podNode, replicas, committed, unplaced,
                 reserved, pending, returned>>

\* Schedule, lines 172-184, for the vpod v with des desired vreplicas and a
\* caller that read onEntry on entry, with the lister failure fail
ScheduleBody(v, des, onEntry, fail) ==
  \E o \in Schedule(v, des, committed[v], v \in unplaced, committed, reserved, pending, fail) :
     /\ reserved' = o.reserved
     /\ pending' = o.pending
     /\ returned' = IF o.nil THEN returned ELSE MapPut(returned, v, o.ps)
     /\ call' = [op |-> "Schedule", vpod |-> v, desired |-> des, nil |-> o.nil, err |-> o.err,
                 path |-> o.path, autoscale |-> o.autoscale, autoscaleArg |-> o.autoscaleArg,
                 replicasOnEntry |-> onEntry, failed |-> o.failed,
                 pluginError |-> o.pluginError, placedOnFull |-> o.placedOnFull]
     /\ UNCHANGED <<policyType, policy, nodes, podNode, replicas, committed, unplaced>>

\* Schedule, lines 172-184 and the deferred Unlock
ScheduleRun(v) ==
  /\ v \in DOMAIN inside
  /\ ScheduleBody(v, inside[v].desired, inside[v].replicas, NoFail)
  /\ lock' = FALSE
  /\ inside' = MapDelete(inside, v)
  /\ UNCHANGED ncalls

\* a whole Schedule call, from Lock to Unlock, with nothing in between
ScheduleCall(v, des) ==
  /\ v \notin DOMAIN inside
  /\ LockFree(lock)
  /\ ncalls < MaxCalls
  /\ ncalls' = ncalls + 1
  /\ ScheduleBody(v, des, replicas, NoFail)
  /\ UNCHANGED <<lock, inside>>

\* a whole Schedule call during which the state build fail.at fails
ScheduleFailing(v, des, fail) ==
  /\ v \notin DOMAIN inside
  /\ LockFree(lock)
  /\ ncalls < MaxCalls
  /\ ncalls' = ncalls + 1
  /\ ScheduleBody(v, des, replicas, fail)
  /\ call'.failed
  /\ UNCHANGED <<lock, inside>>

\* updateStatefulset, line 881: the pool watcher acquires the mutex
UpdateLock ==
  /\ 0 \notin DOMAIN inside
  /\ LockFree(lock)
  /\ lock' = TRUE
  /\ inside' = MapPut(inside, 0, [desired |-> 0, replicas |-> replicas,
                                   reserved |-> reserved, pending |-> pending])
  /\ call' = NoCall
  /\ UNCHANGED <<policyType, policy, nodes, podNode, replicas, committed, unplaced,
                 reserved, pending, returned, ncalls>>

\* updateStatefulset, lines 884-889 and the deferred Unlock; n = -1 stands for
\* a statefulset whose Spec.Replicas is nil
UpdateRun(n) ==
  /\ 0 \in DOMAIN inside
  /\ replicas' = IF n = -1 THEN 1 ELSE n
  /\ lock' = FALSE
  /\ inside' = MapDelete(inside, 0)
  /\ call' = [op |-> "updateStatefulset"]
  /\ UNCHANGED <<policyType, policy, nodes, podNode, committed, unplaced,
                 reserved, pending, returned, ncalls>>

\* a whole updateStatefulset call, from Lock to Unlock
updateStatefulset(n) ==
  /\ 0 \notin DOMAIN inside
  /\ LockFree(lock)
  /\ replicas' = IF n = -1 THEN 1 ELSE n
  /\ call' = [op |-> "updateStatefulset"]
  /\ UNCHANGED <<policyType, policy, nodes, podNode, committed, unplaced,
                 reserved, pending, returned, lock, inside, ncalls>>

\* the caller commits the placements Schedule returned last for vpod v
Commit(v) ==
  /\ v \in DOMAIN returned
  /\ v \notin DOMAIN inside
  /\ committed' = [committed EXCEPT ![v] = returned[v]]
  /\ unplaced' = unplaced \ {v}
  /\ returned' = MapDelete(returned, v)
  /\ call' = NoCall
  /\ UNCHANGED <<policyType, policy, nodes, podNode, replicas,
                 reserved, pending, lock, inside, ncalls>>

\* ------------------------------------------------------- configurations
\* node inventories: two nodes in two zones, in one zone, one node without
\* the zone label, and no usable node at all
NodeInventories ==
  {<<[unsched |-> FALSE, zone |-> 1], [unsched |-> FALSE, zone |-> 2]>>,
   <<[unsched |-> FALSE, zone |-> 1], [unsched |-> FALSE, zone |-> 1]>>,
   <<[unsched |-> FALSE, zone |-> 1], [unsched |-> FALSE, zone |-> 0]>>,
   <<[unsched |-> TRUE, zone |-> 1], [unsched |-> FALSE, zone |-> 0]>>}

\* pods are bound to the two nodes in turn
PodInventory == [o \in Ords |-> (o % 2) + 1]

\* scheduler policies of the predicate/priority mode
Policies ==
  {[nil |-> FALSE, Predicates |-> <<"PodFitsResources">>,
    Priorities |-> <<[Name |-> "LowestOrdinalPriority", Weight |-> 1]>>],
   [nil |-> FALSE, Predicates |-> <<"PodFitsResources", "EvenPodSpread">>,
    Priorities |-> <<>>],
   [nil |-> FALSE, Predicates |-> <<"PodFitsResources">>,
    Priorities |-> <<[Name |-> "LowestOrdinalPriority", Weight |-> 0]>>],
   [nil |-> FALSE, Predicates |-> <<"PodFitsResources">>,
    Priorities |-> <<[Name |-> "LowestOrdinalPriority", Weight |-> MaxTotalWeight]>>]}

Configurations ==
  {[policyType |-> "MAXFILLUP", policy |-> NoPolicy, nodes |-> n]
     : n \in {<<[unsched |-> FALSE, zone |-> 1], [unsched |-> FALSE, zone |-> 2]>>}}
  \cup {[policyType |-> t, policy |-> NoPolicy, nodes |-> n]
     : t \in {"EVENSPREAD", "EVENSPREAD_BYNODE"}, n \in NodeInventories}
  \cup {[policyType |-> "", policy |-> p, nodes |-> n]
     : p \in Policies, n \in {<<[unsched |-> FALSE, zone |-> 1], [unsched |-> FALSE, zone |-> 2]>>}}

\* ------------------------------------------------------------ scheduler run
Init ==
  /\ \E c \in Configurations :
       /\ policyType = c.policyType
       /\ policy = c.policy
       /\ nodes = c.nodes
  /\ podNode = PodInventory
  /\ replicas = 0
  /\ committed = [v \in VPods |-> <<>>]
  /\ unplaced = VPods
  /\ reserved = EmptyMap
  /\ pending = EmptyMap
  /\ returned = EmptyMap
  /\ lock = FALSE
  /\ inside = EmptyMap
  /\ call = NoCall
  /\ ncalls = 0

Next ==
  \/ \E v \in VPods, des \in 0..MaxDesired : ScheduleCall(v, des)
  \/ \E n \in -1..MaxReplicas : updateStatefulset(n)
  \/ \E v \in VPods : Commit(v)

Spec == Init /\ [][Next]_vars

\* ------------------------------------------- the mutex, step by step
InitLock == Init /\ policyType = "MAXFILLUP"

NextLock ==
  \/ \E v \in VPods, des \in 0..MaxDesired : ScheduleLock(v, des)
  \/ \E v \in VPods : ScheduleRun(v)
  \/ UpdateLock
  \/ \E n \in -1..MaxReplicas : UpdateRun(n)
  \/ \E v \in VPods : Commit(v)

SpecLock == InitLock /\ [][NextLock]_vars

\* ------------------------------------------- the scheduler with failing listers
\* one configuration per mode
FailConfigurations ==
  {c \in Configurations :
     /\ c.nodes = <<[unsched |-> FALSE, zone |-> 1], [unsched |-> FALSE, zone |-> 2]>>
     /\ c.policyType \in {"MAXFILLUP", "EVENSPREAD", ""}
     /\ ~c.policy.nil => /\ Len(c.policy.Priorities) = 1
                         /\ c.policy.Priorities[1].Weight = 1}

\* the state build that fails (0 is the one at the start of scheduleVPod, n > 0
\* the one of iteration n - 1 of addReplicasWithPolicy) and the failing lister
Failures == [at : 0..MaxDesired, lister : {"vpods", "nodes"}]

InitFail ==
  /\ Init
  /\ \E c \in FailConfigurations :
       /\ policyType = c.policyType
       /\ policy = c.policy
       /\ nodes = c.nodes

NextFail ==
  \/ \E v \in VPods, des \in 0..MaxDesired : ScheduleCall(v, des)
  \/ \E v \in VPods, des \in 0..MaxDesired, fail \in Failures : ScheduleFailing(v, des, fail)
  \/ \E n \in -1..MaxReplicas : updateStatefulset(n)
  \/ \E v \in VPods : Commit(v)

SpecFail == InitFail /\ [][NextFail]_vars

\* ------------------------------------------- the scheduler with changing nodes
\* the node lister reports node n as unschedulable from now on
Cordon(n) ==
  /\ ~nodes[n].unsched
  /\ nodes' = [nodes EXCEPT ![n].unsched = TRUE]
  /\ call' = NoCall
  /\ UNCHANGED <<policyType, policy, podNode, replicas, committed, unplaced,
                 reserved, pending, returned, lock, inside, ncalls>>

InitNodes ==
  /\ Init
  /\ policyType = "EVENSPREAD"
  /\ nodes = <<[unsched |-> FALSE, zone |-> 1], [unsched |-> FALSE, zone |-> 2]>>

NextNodes ==
  \/ \E v \in VPods, des \in 0..MaxDesired : ScheduleCall(v, des)
  \/ \E n \in -1..MaxReplicas : updateStatefulset(n)
  \/ \E v \in VPods : Commit(v)
  \/ \E n \in DOMAIN nodes : Cordon(n)

SpecNodes == InitNodes /\ [][NextNodes]_vars

\* ------------------------------------- the scheduler with both vpods placed
\* the run continued from the state it is in after Schedule(1, 1) and
\* Schedule(2, 1) under the policy without priorities in a pool of two workers,
\* the first vreplica having gone to worker 0 and the second to worker 1, and
\* after both results were committed
InitBusy ==
  /\ policyType = ""
  /\ policy = [nil |-> FALSE, Predicates |-> <<"PodFitsResources", "EvenPodSpread">>,
               Priorities |-> <<>>]
  /\ nodes = <<[unsched |-> FALSE, zone |-> 1], [unsched |-> FALSE, zone |-> 2]>>
  /\ podNode = PodInventory
  /\ replicas = 2
  /\ committed = [v \in VPods |-> <<[ord |-> v - 1, vr |-> 1]>>]
  /\ unplaced = {}
  /\ reserved = [v \in VPods |-> [o \in {v - 1} |-> 1]]
  /\ pending = EmptyMap
  /\ returned = EmptyMap
  /\ lock = FALSE
  /\ inside = EmptyMap
  /\ call = NoCall
  /\ ncalls = 0

SpecBusy == InitBusy /\ [][Next]_vars

\* ------------------------------------------- the scheduler with a large pool
\* the smallest pool whose last pod gets a negative lowest-ordinal score while
\* nothing is placed (LastOrdinal = -1): (LastOrdinal + 2) * 100 - podID < 0
LargePool == ((-1 + 2) * 100) + 2

\* policies with and without the predicate PodFitsResources
PluginPolicies ==
  {[nil |-> FALSE, Predicates |-> preds,
    Priorities |-> <<[Name |-> "LowestOrdinalPriority", Weight |-> 1]>>]
   : preds \in {<<"PodFitsResources">>, <<>>, <<"EvenPodSpread">>}}

InitPlugin ==
  /\ policyType = ""
  /\ policy \in PluginPolicies
  /\ nodes = <<[unsched |-> FALSE, zone |-> 1], [unsched |-> FALSE, zone |-> 2]>>
  /\ podNode = PodInventory
  /\ replicas = 0
  /\ committed = [v \in VPods |-> <<>>]
  /\ unplaced = VPods
  /\ reserved = EmptyMap
  /\ pending = EmptyMap
  /\ returned = EmptyMap
  /\ lock = FALSE
  /\ inside = EmptyMap
  /\ call = NoCall
  /\ ncalls = 0

NextPlugin ==
  \/ \E v \in VPods, des \in 0..MaxDesired : ScheduleCall(v, des)
  \/ \E n \in (-1..MaxReplicas) \cup {LargePool} : updateStatefulset(n)
  \/ \E v \in VPods : Commit(v)

SpecPlugin == InitPlugin /\ [][NextPlugin]_vars

\* ------------------------------------- the state builder on given inputs
\* committed and reserved vreplicas of one (vpod, pod) pair, 0 for none:
\* nothing, commit only, reservation only, commit below, at and above the
\* reservation
PairInputs == {<<0, 0>>, <<1, 0>>, <<0, 1>>, <<1, 2>>, <<1, 1>>, <<2, 1>>}

\* the placement list with the positive entries of f, by ordinal ascending
RECURSIVE ListOf(_, _)
ListOf(f, o) ==
  IF o >= MaxReplicas THEN <<>>
  ELSE (IF f[o] > 0 THEN << [ord |-> o, vr |-> f[o]] >> ELSE <<>>) \o ListOf(f, o + 1)

TableOf(g) ==
  LET keys == {v \in DOMAIN g : \E o \in Ords : g[v][o][2] > 0}
  IN [v \in keys |-> [o \in {x \in Ords : g[v][x][2] > 0} |-> g[v][o][2]]]

InitState ==
  /\ policyType = "MAXFILLUP"
  /\ policy = NoPolicy
  /\ nodes = <<[unsched |-> FALSE, zone |-> 1], [unsched |-> FALSE, zone |-> 2]>>
  /\ podNode = PodInventory
  /\ replicas = 0
  /\ \E listed \in (SUBSET VPods) \ {{}}, g \in [VPods -> [Ords -> PairInputs]] :
       /\ \A v \in VPods \ listed, o \in Ords : g[v][o][1] = 0
       /\ committed = [v \in listed |-> ListOf([o \in Ords |-> g[v][o][1]], 0)]
       /\ reserved = TableOf(g)
  /\ unplaced = {}
  /\ pending = EmptyMap
  /\ returned = EmptyMap
  /\ lock = FALSE
  /\ inside = EmptyMap
  /\ call = NoCall
  /\ ncalls = 0

\* a call of stateBuilder.State with the reservation table
StateCall ==
  /\ \E so \in State(committed, reserved, policyType, nodes) :
       /\ reserved' = so.reserved
       /\ call' = [op |-> "State", st |-> so.st, reservedIn |-> reserved]
  /\ UNCHANGED <<policyType, policy, nodes, podNode, replicas, committed, unplaced,
                 pending, returned, lock, inside, ncalls>>

NextState == StateCall

SpecState == InitState /\ [][NextState]_vars

\* -------------------------------- the state builder on arbitrary listings
\* the placements a listed vpod may carry: any worker, none or one vreplica,
\* in any order and with repetitions
ListedPlacements == [ord : 0..MaxReplicas, vr : 0..1]

Listings == UNION {[1..n -> ListedPlacements] : n \in 0..MaxLen}

InitSnapshot ==
  /\ policyType = "MAXFILLUP"
  /\ policy = NoPolicy
  /\ nodes = <<[unsched |-> FALSE, zone |-> 1], [unsched |-> FALSE, zone |-> 2]>>
  /\ podNode = PodInventory
  /\ replicas = 0
  /\ committed \in [VPods -> Listings]
  /\ reserved = EmptyMap
  /\ unplaced = {}
  /\ pending = EmptyMap
  /\ returned = EmptyMap
  /\ lock = FALSE
  /\ inside = EmptyMap
  /\ call = NoCall
  /\ ncalls = 0

NextSnapshot == StateCall

SpecSnapshot == InitSnapshot /\ [][NextSnapshot]_vars

\* ------------------------------ the state builder on arbitrary inventories
\* a node is schedulable or not and carries one of two zone names or no zone
\* label (0)
ListedNodes == [unsched : BOOLEAN, zone : 0..2]

Inventories == UNION {[1..n -> ListedNodes] : n \in 0..MaxLen}

InitDomains ==
  /\ policyType \in {"MAXFILLUP", "EVENSPREAD", "EVENSPREAD_BYNODE", ""}
  /\ policy = NoPolicy
  /\ nodes \in Inventories
  /\ podNode = PodInventory
  /\ replicas = 0
  /\ committed = [v \in VPods |-> <<>>]
  /\ reserved = EmptyMap
  /\ unplaced = {}
  /\ pending = EmptyMap
  /\ returned = EmptyMap
  /\ lock = FALSE
  /\ inside = EmptyMap
  /\ call = NoCall
  /\ ncalls = 0

NextDomains == StateCall

SpecDomains == InitDomains /\ [][NextDomains]_vars

\* ------------------------------------------------ helpers.go: worker names
\* a string is a sequence of characters
Digits == <<"0", "1", "2", "3", "4", "5", "6", "7", "8", "9">>

IsDigit(c) == \E i \in 1..10 : Digits[i] = c

DigitValue(c) == (CHOOSE i \in 1..10 : Digits[i] = c) - 1

\* strconv.Itoa
RECURSIVE Itoa(_)
Itoa(n) ==
  IF n < 0 THEN <<"-">> \o Itoa(-n)
  ELSE IF n < 10 THEN <<Digits[n + 1]>>
  ELSE Itoa(n \div 10) \o <<Digits[(n % 10) + 1]>>

\* the value of the digit string str read from position i on, given the value
\* acc of the digits before; err when a character is no digit or the value
\* leaves the 32-bit range (neg tells the sign that was read)
RECURSIVE ParseDigits(_, _, _, _)
ParseDigits(str, i, acc, neg) ==
  IF i > Len(str) THEN [err |-> FALSE, value |-> IF neg THEN -acc ELSE acc]
  ELSE IF ~IsDigit(str[i]) THEN [err |-> TRUE, value |-> 0]
  ELSE LET d == DigitValue(str[i])
       IN IF acc > (MaxInt32 - d) \div 10 /\ ~(neg /\ acc = MaxInt32 \div 10 /\ d = 8)
          THEN [err |-> TRUE, value |-> 0]
          ELSE IF neg /\ acc = MaxInt32 \div 10 /\ d = 8
          THEN IF i = Len(str) THEN [err |-> FALSE, value |-> MinInt32]
               ELSE [err |-> TRUE, value |-> 0]
          ELSE ParseDigits(str, i + 1, (acc * 10) + d, neg)

\* strconv.ParseInt(str, 10, 32)
ParseInt(str) ==
  IF Len(str) = 0 THEN [err |-> TRUE, value |-> 0]
  ELSE LET signed == str[1] \in {"+", "-"}
           first == IF signed THEN 2 ELSE 1
       IN IF first > Len(str) THEN [err |-> TRUE, value |-> 0]
          ELSE ParseDigits(str, first, 0, str[1] = "-")

\* strings.LastIndex(str, "-"), -1 when there is none
LastIndex(str) ==
  LET at == {i \in 1..Len(str) : str[i] = "-"}
  IN IF at = {} THEN -1 ELSE (CHOOSE i \in at : \A j \in at : j <= i) - 1

podNameFromOrdinal(name, ordinal) == name \o <<"-">> \o Itoa(ordinal)

\* mutant: the name is cut at its first '-'
ordinalFromPodName_firstDash(podName) ==
  LET at == {i \in 1..Len(podName) : podName[i] = "-"}
      first == IF at = {} THEN 0 ELSE CHOOSE i \in at : \A j \in at : i <= j
      parsed == ParseInt(SubSeq(podName, first + 1, Len(podName)))
  IN IF parsed.err THEN MaxInt32 ELSE parsed.value

ordinalFromPodName(podName) ==
  LET parsed == ParseInt(SubSeq(podName, LastIndex(podName) + 2, Len(podName)))
  IN IF parsed.err THEN MaxInt32 ELSE parsed.value

\* statefulSetName: the slice expression panics when its upper bound is negative
statefulSetName(podName) ==
  LET high == LastIndex(podName) - 1
  IN IF high < 0 THEN [panic |-> TRUE, value |-> <<>>]
     ELSE [panic |-> FALSE, value |-> SubSeq(podName, 1, high)]

\* grow on the length of the slice alone: top is the last index of the slice
\* (-1 when it is empty); diff = ordinal - l + 1 is computed in 32 bits and
\* wraps around for the sentinel ordinal and an empty slice
growTop(top, ordinal) ==
  LET diff == IF top = -1 /\ ordinal = MaxInt32 THEN MinInt32 ELSE ordinal - top
  IN IF diff <= 0 THEN top ELSE ordinal

\* updateFreeCapacity on the length of FreeCap alone, for the worker names of
\* a listing in turn: free[ordinal] panics when the index is outside the slice
RECURSIVE updateFreeCapacityTop(_, _, _)
updateFreeCapacityTop(podNames, i, acc) ==
  IF i > Len(podNames) \/ acc.panic THEN acc
  ELSE LET ordinal == ordinalFromPodName(podNames[i])
           top == growTop(acc.top, ordinal)
       IN updateFreeCapacityTop(podNames, i + 1, [panic |-> ordinal > top, top |-> top])

\* ------------------------------------------------ the helpers on given names
\* pool names, with and without '-' and digits
PoolNames == UNION {[1..n -> {"a", "-", "1"}] : n \in 0..MaxLen}

\* ordinals: small ones, two and three digits, the largest
OrdinalInputs == (0..MaxReplicas) \cup {10, LargePool, MaxInt32}

\* worker names of any form
WorkerNames ==
  UNION {[1..n -> {"a", "-", "1", "+"}] : n \in 0..(MaxLen + 1)}
  \cup {<<"a", "-">> \o sfx : sfx \in {Itoa(MaxInt32), Itoa(MaxInt32 \div 10) \o <<"8">>,
                                        Itoa(MaxInt32) \o <<"0">>, <<"0", "1">>, <<"1", "a">>}}

InitNames == InitDomains /\ policyType = "MAXFILLUP" /\ nodes = <<>>

NamesFrame ==
  UNCHANGED <<policyType, policy, nodes, podNode, replicas, committed, unplaced,
              reserved, pending, returned, lock, inside, ncalls>>

\* podNameFromOrdinal(name, ordinal)
Encode(name, ordinal) ==
  /\ call' = [op |-> "podNameFromOrdinal", pool |-> name, ordinal |-> ordinal,
              name |-> podNameFromOrdinal(name, ordinal)]
  /\ NamesFrame

\* ordinalFromPodName on the name the last call made
DecodeEncoded ==
  /\ call.op = "podNameFromOrdinal"
  /\ call' = [op |-> "roundTrip", pool |-> call.pool, ordinal |-> call.ordinal,
              name |-> call.name, decoded |-> ordinalFromPodName(call.name)]
  /\ NamesFrame

\* statefulSetName on the name the last call made
StripEncoded ==
  /\ call.op = "podNameFromOrdinal"
  /\ call' = [op |-> "statefulSetName", pool |-> call.pool, ordinal |-> call.ordinal,
              name |-> call.name, stripped |-> statefulSetName(call.name)]
  /\ NamesFrame

\* ordinalFromPodName(podName)
Decode(podName) ==
  /\ call' = [op |-> "ordinalFromPodName", name |-> podName,
              ordinal |-> ordinalFromPodName(podName)]
  /\ NamesFrame

\* the worker names of listed placements: parseable or not
ListedNames == {<<"a", "-", "0">>, <<"a", "-", "1">>, <<"a", "-", "a">>, <<"a">>}

\* the first loop of State over the placements of a listing, as far as the
\* length of FreeCap goes
StateNamed(podNames) ==
  /\ call' = [op |-> "StateNamed", names |-> podNames,
              out |-> updateFreeCapacityTop(podNames, 1, [panic |-> FALSE, top |-> -1])]
  /\ NamesFrame

NextNames ==
  \/ \E name \in PoolNames, ordinal \in OrdinalInputs : Encode(name, ordinal)
  \/ DecodeEncoded
  \/ StripEncoded
  \/ \E podName \in WorkerNames : Decode(podName)
  \/ \E podNames \in UNION {[1..n -> ListedNames] : n \in 0..MaxLen} : StateNamed(podNames)

SpecNames == InitNames /\ [][NextNames]_vars

\* ------------------------------------------------ interface.go: statuses
\* NewStatus: err tells whether the status carries an error object
NewStatus(code, reasons) == [nil |-> FALSE, code |-> code, reasons |-> reasons, err |-> code = Error]

\* the nil status, a success
NilStatus == [nil |-> TRUE, code |-> Success, reasons |-> <<>>, err |-> FALSE]

IsSuccess(status) == status.code = Success

\* mutant: the code of the status met last wins
MergeStep_overwrite(finalStatus, status) ==
  [finalStatus EXCEPT !.err = finalStatus.err \/ status.code = Error,
                      !.code = status.code,
                      !.reasons = finalStatus.reasons \o status.reasons]

\* body of the loop of Merge for one status of the map
MergeStep(finalStatus, status) ==
  [finalStatus EXCEPT !.err = finalStatus.err \/ status.code = Error,
                      !.code = IF status.code > finalStatus.code THEN status.code
                               ELSE finalStatus.code,
                      !.reasons = finalStatus.reasons \o status.reasons]

RECURSIVE MergeLoop(_, _, _, _)
MergeLoop(statuses, order, i, finalStatus) ==
  IF i > Len(order) THEN finalStatus
  ELSE MergeLoop(statuses, order, i + 1, MergeStep(finalStatus, statuses[order[i]]))

\* the orders in which a map with the keys S can be traversed
Traversals(S) ==
  {f \in [1..Cardinality(S) -> S] : \A i, j \in 1..Cardinality(S) : f[i] = f[j] => i = j}

\* PluginToStatus.Merge: the possible results, one per traversal of the map
Merge(statuses) ==
  IF DOMAIN statuses = {} THEN {NilStatus}
  ELSE {MergeLoop(statuses, order, 1, NewStatus(Success, <<>>))
        : order \in Traversals(DOMAIN statuses)}

\* ------------------------------------------------ Merge on given statuses
\* statuses as the plugins make them, with no, one and two reasons
StatusInputs ==
  {NewStatus(Success, <<>>)} \cup
  {NewStatus(code, reasons)
   : code \in {Unschedulable, Error},
     reasons \in {<<"pod at full capacity">>,
                  <<"pod(s) were unschedulable", "pod at full capacity">>}}

StatusMaps == UNION {[names -> StatusInputs] : names \in SUBSET RegisteredFilterPlugins}

MergeCall(statuses) ==
  /\ \E merged \in Merge(statuses) :
       call' = [op |-> "Merge", statuses |-> statuses, merged |-> merged]
  /\ NamesFrame

NextMerge == \E statuses \in StatusMaps : MergeCall(statuses)

SpecMerge == InitNames /\ [][NextMerge]_vars

\* ------------------------------------------- Score on given snapshots
\* the last ordinals and the ordinals scored: the small ones, those around the
\* first negative score, and those around the largest product of 32 bits
ScoreLastOrdinals ==
  (-1..MaxReplicas) \cup {MaxInt32 \div 100 - 3, MaxInt32 \div 100 - 2,
                          MaxInt32 \div 100 - 1, MaxInt32 - 2, MaxInt32 - 1, MaxInt32}

ScoreOrdinals ==
  (0..MaxReplicas) \cup {LargePool - 3, LargePool - 2, LargePool - 1, LargePool,
                         (MaxReplicas + 2) * 100, (MaxReplicas + 2) * 100 + 1,
                         MaxInt32 - 47, MaxInt32 - 46, MaxInt32}

ScoreCall(lastOrdinal, podID) ==
  /\ call' = [op |-> "Score", lastOrdinal |-> lastOrdinal, podID |-> podID,
               result |-> lowestOrdinalScore(lastOrdinal, podID)]
  /\ NamesFrame

NextScore ==
  \E lastOrdinal \in ScoreLastOrdinals, podID \in ScoreOrdinals : ScoreCall(lastOrdinal, podID)

SpecScore == InitNames /\ [][NextScore]_vars

\* ------------------------------------------------------------ autoscaler
\* The autoscaler loop: a tick computes the target size of the pool, grows the
\* pool at once, and before shrinking it evicts the placements on the ordinals
\* from the target on, one Evict call after the other. The record call holds
\* the tick in progress.
PoolLimits == [minReplicas |-> 0, maxReplicas |-> MaxReplicas + 1]

\* the vreplicas required: those of all vpods and the pending ones
RECURSIVE SumDesired(_, _)
SumDesired(desired, S) ==
  IF S = {} THEN 0
  ELSE LET v == CHOOSE x \in S : TRUE IN desired[v] + SumDesired(desired, S \ {v})

\* target = ceil(required / C), clamped to the limits of the pool
autoscalerTarget(desired, pend) ==
  LET required == SumDesired(desired, DOMAIN desired) + pendingVReplicas(pend)
      target == (required + Capacity - 1) \div Capacity
  IN Max(PoolLimits.minReplicas, Min(PoolLimits.maxReplicas, target))

\* mutant: the placements above the target, without those on the target itself
RECURSIVE Stranded_above(_, _, _)
Stranded_above(listing, target, v) ==
  IF v > NumVPods THEN <<>>
  ELSE LET beyond(p) == p.ord > target
           sel == SelectSeq(listing[v], beyond)
       IN [i \in 1..Len(sel) |-> [vpod |-> v, ord |-> sel[i].ord]]
          \o Stranded_above(listing, target, v + 1)

\* the placements on an ordinal >= target, of the vpods from v on
RECURSIVE Stranded(_, _, _)
Stranded(listing, target, v) ==
  IF v > NumVPods THEN <<>>
  ELSE LET beyond(p) == p.ord >= target
           sel == SelectSeq(listing[v], beyond)
       IN [i \in 1..Len(sel) |-> [vpod |-> v, ord |-> sel[i].ord]]
          \o Stranded(listing, target, v + 1)

\* a successful Evict: the placement of the vpod on the worker is removed
Evict(listing, e) ==
  LET kept(p) == p.ord # e.ord
  IN [listing EXCEPT ![e.vpod] = SelectSeq(@, kept)]

AutoscalerFrame ==
  UNCHANGED <<policyType, policy, nodes, podNode, unplaced, reserved, pending,
              returned, lock, inside, ncalls>>

TickOver == call.op = "none" \/ (call.op = "tick" /\ call.phase = "done")

\* a tick begins: the target is computed; a larger pool is patched at once
TickStart(desired) ==
  /\ TickOver
  /\ LET target == autoscalerTarget(desired, pending)
         n == IF call.op = "tick" THEN 1 - call.n ELSE 0
     IN /\ call' = [op |-> "tick", n |-> n, target |-> target, before |-> replicas,
                    phase |-> IF target < replicas THEN "evicting" ELSE "done",
                    queue |-> IF target < replicas THEN Stranded(committed, target, 1)
                              ELSE <<>>,
                    evicted |-> 0, aborted |-> FALSE]
        /\ replicas' = IF target > replicas THEN target ELSE replicas
  /\ UNCHANGED committed
  /\ AutoscalerFrame

\* Evictor.Evict returns without error for the next placement to evict
EvictOk ==
  /\ call.op = "tick" /\ call.phase = "evicting" /\ call.queue # <<>>
  /\ committed' = Evict(committed, Head(call.queue))
  /\ call' = [call EXCEPT !.queue = Tail(@), !.evicted = @ + 1]
  /\ UNCHANGED replicas
  /\ AutoscalerFrame

\* Evictor.Evict returns an error: the shrink is given up for this tick
EvictFail ==
  /\ call.op = "tick" /\ call.phase = "evicting" /\ call.queue # <<>>
  /\ call' = [call EXCEPT !.phase = "done", !.aborted = TRUE]
  /\ UNCHANGED <<replicas, committed>>
  /\ AutoscalerFrame

\* all evictions returned: the pool is patched down to the target
PatchDown ==
  /\ call.op = "tick" /\ call.phase = "evicting" /\ call.queue = <<>>
  /\ replicas' = call.target
  /\ call' = [call EXCEPT !.phase = "done"]
  /\ UNCHANGED committed
  /\ AutoscalerFrame

\* the placements the vpods have when the autoscaler runs: one vreplica on
\* each worker of a set, in ascending order of the ordinals
RECURSIVE OnWorkers(_, _)
OnWorkers(S, o) ==
  IF o > MaxReplicas THEN <<>>
  ELSE (IF o \in S THEN <<[ord |-> o, vr |-> 1]>> ELSE <<>>) \o OnWorkers(S, o + 1)

InitAutoscaler ==
  /\ policyType = "MAXFILLUP"
  /\ policy = NoPolicy
  /\ nodes = <<>>
  /\ podNode = PodInventory
  /\ replicas \in 0..(MaxReplicas + 1)
  /\ committed \in [VPods -> {OnWorkers(S, 0) : S \in SUBSET (0..MaxReplicas)}]
  /\ reserved = EmptyMap
  /\ unplaced = {}
  /\ pending \in {EmptyMap, [v \in {1} |-> 1]}
  /\ returned = EmptyMap
  /\ lock = FALSE
  /\ inside = EmptyMap
  /\ call = NoCall
  /\ ncalls = 0

NextAutoscaler ==
  \/ \E desired \in [VPods -> 0..MaxDesired] : TickStart(desired)
  \/ EvictOk
  \/ EvictFail
  \/ PatchDown

\* the loop ticks again and again, and every Evict call returns
SpecAutoscaler == InitAutoscaler /\ [][NextAutoscaler]_vars /\ WF_vars(NextAutoscaler)

\* ------------------------------------------- addReplicas on given snapshots
\* the free capacities of a snapshot with the pod capacity cap
FreeCaps(cap) == UNION {[1..n -> {-1, 0, 1, cap}] : n \in 0..(MaxReplicas + 1)}

\* the calls of addReplicas: a snapshot, the sorted placements of the vpod with
\* one vreplica each, counted in the snapshot, the vreplicas to add and the
\* size of the pool; the pod capacity is that of the model or 10
FillArgsOf(cap) ==
  {[op |-> "args",
    st |-> [FreeCap |-> f, LastOrdinal |-> Len(f) - 1, Capacity |-> cap,
            SchedulerPolicy |-> "MAXFILLUP"],
    diff |-> d, placements |-> OnWorkers(S, 0), reps |-> r]
   : f \in FreeCaps(cap), S \in SUBSET (0..MaxReplicas),
     d \in 1..MaxDesired, r \in 0..(MaxReplicas + 1)}

FillArgs == FillArgsOf(Capacity) \cup FillArgsOf(10)

InitFill ==
  /\ policyType = "MAXFILLUP"
  /\ policy = NoPolicy
  /\ nodes = <<>>
  /\ podNode = PodInventory
  /\ replicas = 0
  /\ committed = [v \in VPods |-> <<>>]
  /\ reserved = EmptyMap
  /\ unplaced = {}
  /\ pending = EmptyMap
  /\ returned = EmptyMap
  /\ lock = FALSE
  /\ inside = EmptyMap
  /\ ncalls = 0
  /\ call \in {a \in FillArgs :
                 \A o \in PlacedOrds(a.placements) :
                    o < Len(a.st.FreeCap) /\ a.st.FreeCap[o + 1] < a.st.Capacity}

addReplicasCall ==
  /\ call.op = "args"
  /\ LET a == addReplicas(call.st, call.diff, call.placements, call.reps)
     IN call' = [op |-> "addReplicas", st |-> call.st, diff |-> call.diff,
                 placements |-> call.placements, reps |-> call.reps,
                 ps |-> a.ps, left |-> a.diff]
  /\ NamesFrame

NextFill == addReplicasCall

SpecFill == InitFill /\ [][NextFill]_vars

\* ------------------------------- addReplicasEvenSpread on given snapshots
\* pods of the workers 0..MaxReplicas: every binding to the two nodes, and one
\* with a pod the lister does not know
PodInventories ==
  [0..MaxReplicas -> 1..2] \cup {[o \in 0..MaxReplicas |-> IF o = 1 THEN 0 ELSE (o % 2) + 1]}

\* the snapshots of a spread policy over a node inventory
SpreadStates(polType, nodeInv) ==
  LET n2z == NodeToZoneMap(nodeInv)
  IN {[FreeCap |-> f, LastOrdinal |-> Len(f) - 1, Capacity |-> Capacity,
       NumZones |-> Cardinality({n2z[n] : n \in DOMAIN n2z}),
       NumNodes |-> Cardinality(DOMAIN n2z),
       SchedulerPolicy |-> polType, NodeToZoneMap |-> n2z]
      : f \in UNION {[1..n -> {0, 1, Capacity}] : n \in 0..(MaxReplicas + 1)}}

\* the scale-ups of scheduleVPod under a spread policy: a snapshot, the sorted
\* placements of the vpod counted in it, the desired vreplicas, the spread
\* value computed from them and the size of the pool
SpreadArgsOf(st) ==
  UNION {LET ps == OnWorkers(S, 0)
             des == GetTotalVReplicas(ps) + d
             numDomains == IF st.SchedulerPolicy = "EVENSPREAD" THEN st.NumZones
                           ELSE st.NumNodes
         IN {[op |-> "args", st |-> st, placements |-> ps, desired |-> des,
              diff |-> d, evenSpread |-> e, reps |-> r]
             : e \in CeilDivInt32(des, numDomains), r \in {1, MaxReplicas + 1}}
         : S \in {T \in SUBSET (0..MaxReplicas) :
                    \A o \in T : o < Len(st.FreeCap) /\ st.FreeCap[o + 1] < st.Capacity},
           d \in 1..MaxDesired}

InitSpread ==
  /\ policyType \in {"EVENSPREAD", "EVENSPREAD_BYNODE"}
  /\ policy = NoPolicy
  /\ nodes \in NodeInventories
  /\ podNode \in PodInventories
  /\ replicas = 0
  /\ committed = [v \in VPods |-> <<>>]
  /\ reserved = EmptyMap
  /\ unplaced = {}
  /\ pending = EmptyMap
  /\ returned = EmptyMap
  /\ lock = FALSE
  /\ inside = EmptyMap
  /\ ncalls = 0
  /\ call \in UNION {SpreadArgsOf(st) : st \in SpreadStates(policyType, nodes)}

addReplicasEvenSpreadCall ==
  /\ call.op = "args"
  /\ LET a == addReplicasEvenSpread(call.st, call.diff, call.placements,
                                    call.evenSpread, call.reps)
     IN call' = [op |-> "addReplicasEvenSpread", st |-> call.st, diff |-> call.diff,
                 placements |-> call.placements, desired |-> call.desired,
                 evenSpread |-> call.evenSpread, reps |-> call.reps,
                 ps |-> a.ps, left |-> a.diff]
  /\ NamesFrame

SpecSpread == InitSpread /\ [][addReplicasEvenSpreadCall]_vars

\* ------------------------------------------- properties of the state builder
\* vreplicas the listing commits for vpod v on worker o (0 when there are none)
CommittedAt(v, o) == IF v \in DOMAIN committed THEN PlacedAt(committed[v], o) ELSE 0

\* (v, o) has an observed placement in the listing
HasPlacement(v, o) == v \in DOMAIN committed /\ o \in PlacedOrds(committed[v])

\* vreplicas table res reserves for vpod v on worker o (0 when there is no entry)
ReservedAt(res, v, o) == IF v \in DOMAIN res /\ o \in DOMAIN res[v] THEN res[v][o] ELSE 0

HasReservation(res, v, o) == v \in DOMAIN res /\ o \in DOMAIN res[v]

\* the vpods whose reservation on worker o has no observed placement
ReservedOnly(res, o) == {v \in DOMAIN res : o \in DOMAIN res[v] /\ ~HasPlacement(v, o)}

RECURSIVE SumOver(_, _, _, _)
SumOver(res, S, o, acc) ==
  IF S = {} THEN acc
  ELSE LET v == CHOOSE x \in S : TRUE
       IN SumOver(res, S \ {v}, o, acc + res[v][o])

\* what the snapshot took off worker o
Used(st, o) == st.Capacity - Free(st, o)

\* C7: every reservation entry without an observed placement reduces the
\* snapshot's free capacity of its worker by the reserved amount, whatever the
\* order in which the reservation table is traversed
C7_ReservedOnlyCounted ==
  call.op = "State" =>
    \A o \in Ords :
       Used(call.st, o) >= SumOver(call.reservedIn, ReservedOnly(call.reservedIn, o), o, 0)

\* what the pairs with an observed placement take off worker o: the larger of
\* the committed and the reserved vreplicas of each pair
RECURSIVE SumMax(_, _, _, _)
SumMax(res, S, o, acc) ==
  IF S = {} THEN acc
  ELSE LET v == CHOOSE x \in S : TRUE
       IN SumMax(res, S \ {v}, o, acc + Max(CommittedAt(v, o), ReservedAt(res, v, o)))

\* C8: a pair with committed c and reserved r takes max(c, r) off the free
\* capacity of its worker, never c + r: what the snapshot took off a worker is
\* the sum of max(c, r) over the pairs with a placement there plus reservations
\* of pairs without one
C8_ReservationPrecedence ==
  call.op = "State" =>
    \A o \in Ords :
       \E S \in SUBSET ReservedOnly(call.reservedIn, o) :
          Used(call.st, o) = SumMax(call.reservedIn, {v \in DOMAIN committed : HasPlacement(v, o)}, o, 0)
                             + SumOver(call.reservedIn, S, o, 0)

\* a state build has seen a pair whose reservation exceeds its commit
C8_Witness ==
  /\ call.op = "State"
  /\ \E v \in DOMAIN committed, o \in Ords :
        /\ HasPlacement(v, o) /\ HasReservation(call.reservedIn, v, o)
        /\ CommittedAt(v, o) < call.reservedIn[v][o]
        /\ Used(call.st, o) = call.reservedIn[v][o]

\* the entries of vpod v that a state build must leave in the table
KeptEntries(res, v) ==
  {o \in DOMAIN res[v] : ~(HasPlacement(v, o) /\ CommittedAt(v, o) = res[v][o])}

\* C9: a state build removes exactly the reservation entries whose pair has an
\* observed commit equal to the reservation, removes a vpod's key exactly when
\* its last entry goes, and leaves every other entry as it was
C9_Convergence ==
  call.op = "State" =>
    \A v \in DOMAIN call.reservedIn :
       LET keep == KeptEntries(call.reservedIn, v)
       IN IF keep = {}
          THEN v \notin DOMAIN reserved
          ELSE /\ v \in DOMAIN reserved
               /\ DOMAIN reserved[v] = keep
               /\ \A o \in keep : reserved[v][o] = call.reservedIn[v][o]

\* a state build removed a converged entry and kept another of the same vpod
C9_Witness ==
  /\ call.op = "State"
  /\ \E v \in DOMAIN call.reservedIn :
        /\ v \in DOMAIN reserved
        /\ DOMAIN reserved[v] # DOMAIN call.reservedIn[v]

\* a state build removed the last entry of a vpod and with it the vpod's key
C9_WitnessKey ==
  /\ call.op = "State"
  /\ \E v \in DOMAIN call.reservedIn : v \notin DOMAIN reserved

RECURSIVE SumCommitted(_, _, _)
SumCommitted(S, o, acc) ==
  IF S = {} THEN acc
  ELSE LET v == CHOOSE x \in S : TRUE
       IN SumCommitted(S \ {v}, o, acc + CommittedAt(v, o))

\* C1: the vreplicas committed on one worker, summed over all vpods, never
\* exceed the worker capacity
C1_Capacity ==
  \A o \in Ords : SumCommitted(DOMAIN committed, o, 0) <= Capacity

\* the last operation was a Schedule call that returned a placement list
Returned == call.op = "Schedule" /\ ~call.nil

\* vreplicas recorded as pending for vpod v (0 when there is no entry)
PendingOf(v) == IF v \in DOMAIN pending THEN pending[v] ELSE 0

\* C2: after a Schedule call that returns placements, the vreplicas of the
\* returned list plus the pending vreplicas recorded for the vpod equal the
\* desired vreplicas
C2_Conservation ==
  Returned =>
    GetTotalVReplicas(returned[call.vpod]) + PendingOf(call.vpod) = call.desired

\* the reservation entries of a table, as <<vpod, worker, vreplicas>>
Entries(res) == UNION {{<<v, o, res[v][o]>> : o \in DOMAIN res[v]} : v \in DOMAIN res}

\* placement lists as Go compares them: nil and the empty list have no entries
SamePlacements(ps, qs) == Len(ps) = Len(qs) /\ \A i \in 1..Len(ps) : ps[i] = qs[i]

\* C3: a Schedule call for a vpod whose desired vreplicas equal the total of
\* its committed placements returns the committed placements unchanged and no
\* error, leaves no pending entry for the vpod, adds no reservation entry and
\* does not trigger the autoscaler
C3_Idempotence ==
  [][(/\ ncalls' = ncalls + 1
      /\ call'.op = "Schedule"
      /\ GetTotalVReplicas(committed[call'.vpod]) = call'.desired)
     => (/\ call'.err = "nil"
         /\ call'.nil = (call'.vpod \in unplaced)
         /\ ~call'.nil => SamePlacements(returned'[call'.vpod], committed[call'.vpod])
         /\ call'.vpod \notin DOMAIN pending'
         /\ Entries(reserved') \subseteq Entries(reserved)
         /\ ~call'.autoscale)]_vars

\* an already placed vpod was scheduled again with the vreplicas it has
C3_Witness ==
  /\ Returned
  /\ call.path = "already"
  /\ call.desired > 0
  /\ SamePlacements(returned[call.vpod], committed[call.vpod])

IsSorted(ps) == \A i, j \in 1..Len(ps) : i < j => ps[i].ord <= ps[j].ord

\* C4: every placement list Schedule returns is sorted by worker ordinal,
\* ascending
C4_Ordering == Returned => IsSorted(returned[call.vpod])

\* a scale-down, which walks the committed list backwards, returned placements
\* on two workers
C4_Witness ==
  /\ Returned
  /\ call.path = "down"
  /\ Len(returned[call.vpod]) >= 2

WellFormed(ps) ==
  /\ \A i, j \in 1..Len(ps) : i # j => ps[i].ord # ps[j].ord
  /\ \A i \in 1..Len(ps) : ps[i].vr >= 0

\* C5: a placement list Schedule returns for a vpod with well-formed committed
\* placements has at most one entry per worker and no negative vreplicas
C5_WellFormed ==
  (Returned /\ WellFormed(committed[call.vpod])) => WellFormed(returned[call.vpod])

\* a scale-up extended a committed placement and added one on a second worker
C5_Witness ==
  /\ Returned
  /\ call.path = "up"
  /\ Len(committed[call.vpod]) >= 1
  /\ Len(returned[call.vpod]) > Len(committed[call.vpod])
  /\ WellFormed(returned[call.vpod])

\* ------------------------------------------------ properties of the mutex
\* C6: at most one caller is between Lock and Unlock of the scheduler mutex,
\* the mutex is held while one is, and the replica count, the reservation table
\* and the pending table are as the caller inside found them on entry, so no
\* Schedule call and no replica-count update interleaves with another
C6_MutualExclusion ==
  /\ Cardinality(DOMAIN inside) <= 1
  /\ DOMAIN inside # {} => lock
  /\ \A h \in DOMAIN inside :
        /\ inside[h].replicas = replicas
        /\ inside[h].reserved = reserved
        /\ inside[h].pending = pending

\* a Schedule caller holds the mutex while the pool has workers and the
\* reservation table has entries a second caller would change
C6_Witness ==
  /\ lock
  /\ \E v \in VPods : v \in DOMAIN inside
  /\ replicas > 0
  /\ DOMAIN reserved # {}

\* --------------------------------------- properties of the reservations
\* C11: once the placements Schedule returned last for a vpod are committed,
\* one further Schedule call for the vpod (which finds it already scheduled and
\* so reserves nothing new) leaves no reservation entry of the vpod behind
C11_SelfHealing ==
  [][(/\ ncalls' = ncalls + 1
      /\ call'.op = "Schedule"
      /\ call'.path = "already"
      /\ call'.vpod \notin unplaced
      /\ call'.vpod \notin DOMAIN returned)
     => call'.vpod \notin DOMAIN reserved']_vars

\* ----------------------------------- properties of the error handling
\* vreplicas of the vpod the last Schedule call handed back (none for nil)
PlacedByCall == IF call.nil THEN 0 ELSE GetTotalVReplicas(returned[call.vpod])

\* the last operation was a scale-up that could not place all it needed
Insufficient ==
  /\ call.op = "Schedule"
  /\ call.path = "up"
  /\ PlacedByCall < call.desired

\* every placement the call raised above the committed value is reserved in full
IncreasesReserved ==
  ~call.nil =>
    \A i \in 1..Len(returned[call.vpod]) :
       LET p == returned[call.vpod][i]
       IN p.vr > CommittedAt(call.vpod, p.ord)
            => /\ HasReservation(reserved, call.vpod, p.ord)
               /\ reserved[call.vpod][p.ord] = p.vr

\* C12 (as stated): a scale-up that cannot place all needed vreplicas returns
\* a non-nil partial list and ErrNotEnoughReplicas, sets pending[vpod] to the
\* number left unplaced and reserves the increased placements
C12_Insufficient ==
  Insufficient =>
    /\ ~call.nil
    /\ call.err = "ErrNotEnoughReplicas"
    /\ PendingOf(call.vpod) = call.desired - PlacedByCall
    /\ IncreasesReserved

\* C12 (amended): as stated, except that the list is nil exactly when the
\* scheduler runs predicates and priorities, the vpod had no placements and
\* none could be placed
C12_InsufficientOrNil ==
  Insufficient =>
    /\ call.nil <=> (policyType = "" /\ call.vpod \in unplaced /\ PlacedByCall = 0)
    /\ call.err = "ErrNotEnoughReplicas"
    /\ PendingOf(call.vpod) = call.desired - PlacedByCall
    /\ IncreasesReserved

\* a scale-up placed part of what it needed and left the rest pending
C12_Witness ==
  /\ Insufficient
  /\ ~call.nil
  /\ PlacedByCall > GetTotalVReplicas(committed[call.vpod])
  /\ PendingOf(call.vpod) > 0

C13_WitnessDown ==
  /\ call.op = "Schedule"
  /\ call.path = "down"
  /\ DOMAIN pending # {}

\* ------------------------------------------------- failing state builds
\* C14: a Schedule call during which a state build fails returns that error
\* and leaves the reserved table, the pending table and the cached replicas as
\* they were before the call
C14_SnapshotFailure ==
  [][(/\ ncalls' = ncalls + 1
      /\ call'.op = "Schedule"
      /\ call'.failed)
     => /\ call'.err = "lister error"
        /\ reserved' = reserved
        /\ pending' = pending
        /\ replicas' = replicas]_vars

\* ------------------------------------------------------- plugin errors
\* C15: when a plugin returns status Error while a vreplica is placed, the
\* placement stops, the vreplicas left are recorded in pending[vpod] and
\* Schedule returns an error that is not ErrNotEnoughReplicas
C15_PluginError ==
  (call.op = "Schedule" /\ call.pluginError)
    => /\ call.err \notin {"nil", "ErrNotEnoughReplicas"}
       /\ PendingOf(call.vpod) = call.desired - PlacedByCall

\* ------------------------------------------------------ policy validation
\* the policy has a priority whose weight is not in 1..MaxTotalWeight-1
BadWeight(pol) ==
  {pol.Priorities[i].Weight : i \in 1..Len(pol.Priorities)} \ (1..(MaxTotalWeight - 1)) # {}

\* a Schedule call has just run under the predicate/priority policy
PolicyCall == ncalls' = ncalls + 1 /\ call'.op = "Schedule" /\ policyType = "" /\ ~policy.nil

\* the call was refused by the validation and changed nothing
Refused ==
  /\ call'.err = "validating policy failed"
  /\ call'.nil
  /\ pending' = pending
  /\ ~call'.autoscale

\* C16 (as stated): with a policy that has a bad weight every Schedule call
\* returns an error and nil, changes no pending entry and does not call the
\* autoscaler
C16_EveryCallRefused ==
  [][(PolicyCall /\ BadWeight(policy)) => Refused]_vars

\* C16 (amended): the validation fails exactly for the policies with a bad
\* weight; with such a policy every Schedule call for a vpod whose desired
\* vreplicas differ from its committed total returns "validating policy
\* failed" and nil, changes no pending entry and does not call the autoscaler,
\* while a call for a vpod that is already fully placed reports no error
C16_Validation ==
  [][PolicyCall =>
       /\ (BadWeight(policy) /\ call'.path # "already") => Refused
       /\ (BadWeight(policy) /\ call'.path = "already") => call'.err = "nil"
       /\ ~BadWeight(policy) => call'.err # "validating policy failed"]_vars

C16_Witness ==
  /\ call.op = "Schedule"
  /\ call.err = "validating policy failed"
  /\ call.desired > 0
  /\ policy.Priorities[1].Weight >= MaxTotalWeight

C16_WitnessValid ==
  /\ call.op = "Schedule"
  /\ policyType = "" /\ ~policy.nil /\ ~BadWeight(policy)
  /\ Len(policy.Priorities) > 0
  /\ call.path = "up" /\ call.err = "nil"

\* --------------------------------------------------- mandatory predicate
\* C17: whatever predicates the policy lists, no vreplica is placed on a pod
\* whose free capacity in the snapshot is <= 0 while FreeCap is non-empty
C17_MandatoryPredicate ==
  (call.op = "Schedule" /\ policyType = "" /\ ~policy.nil) => ~call.placedOnFull

\* ------------------------------------------------------------------ spread
SpreadPolicy == policyType \in {"EVENSPREAD", "EVENSPREAD_BYNODE"}

\* the failure domains: the zones or the nodes of the usable nodes
Domains ==
  IF policyType = "EVENSPREAD"
  THEN {NodeToZoneMap(nodes)[n] : n \in DOMAIN NodeToZoneMap(nodes)}
  ELSE DOMAIN NodeToZoneMap(nodes)

\* the workers of a failure domain
WorkersOf(d) ==
  {o \in DOMAIN podNode :
     /\ podNode[o] \in DOMAIN NodeToZoneMap(nodes)
     /\ d = IF policyType = "EVENSPREAD" THEN NodeToZoneMap(nodes)[podNode[o]] ELSE podNode[o]}

RECURSIVE SumPlaced(_, _)
SumPlaced(ps, S) ==
  IF S = {} THEN 0
  ELSE LET o == CHOOSE x \in S : TRUE
       IN PlacedAt(ps, o) + SumPlaced(ps, S \ {o})

\* vreplicas the placement list ps has in the failure domain d
CarriedIn(ps, d) == SumPlaced(ps, WorkersOf(d))

CeilDiv(n, d) == (n + d - 1) \div d

\* a Schedule call under a spread policy returned placements and no error
SpreadDone ==
  /\ call.op = "Schedule" /\ SpreadPolicy /\ call.err = "nil" /\ ~call.nil
  /\ Domains # {}

\* the domain has a worker of the pool with free capacity
Usable(d) ==
  \E o \in WorkersOf(d) : o < replicas /\ SumCommitted(DOMAIN committed, o, 0) < Capacity

\* C18: after a Schedule call under a spread policy that returns no error, no
\* domain carries more than ceil(N/D) of the vpod's vreplicas, and when every
\* domain is usable none carries fewer than floor(N/D)
C18_SpreadBounds ==
  SpreadDone =>
    LET D == Cardinality(Domains)
        ps == returned[call.vpod]
    IN /\ \A d \in Domains : CarriedIn(ps, d) <= CeilDiv(call.desired, D)
       /\ (\A d \in Domains : Usable(d))
            => \A d \in Domains : CarriedIn(ps, d) >= call.desired \div D

\* ------------------------------------------------------ zone-less workers
\* the pod of worker o is unknown or its node has no zone in the snapshot
ZoneLess(o) == o \notin DOMAIN podNode \/ podNode[o] \notin DOMAIN NodeToZoneMap(nodes)

\* C19: under EVENSPREAD a scale-up adds no vreplica to a worker whose pod is
\* unknown or whose node has no zone, whether or not the vpod is placed there
C19_ZoneLessSkipped ==
  [][(/\ ncalls' = ncalls + 1
      /\ call'.op = "Schedule"
      /\ policyType = "EVENSPREAD"
      /\ call'.path = "up"
      /\ ~call'.nil)
     => \A o \in Ords :
          ZoneLess(o) => PlacedAt(returned'[call'.vpod], o) <= CommittedAt(call'.vpod, o)]_vars

\* ------------------------------------------------------- no usable domain
\* C20: under a spread policy with no domain in the snapshot, a Schedule call
\* with desired above the committed total adds no vreplica to any worker,
\* returns the committed placements with ErrNotEnoughReplicas and sets
\* pending[vpod] to desired minus the committed total
C20_NoDomains ==
  [][(/\ ncalls' = ncalls + 1
      /\ call'.op = "Schedule"
      /\ SpreadPolicy
      /\ Domains = {}
      /\ call'.desired > GetTotalVReplicas(committed[call'.vpod]))
     => /\ call'.err = "ErrNotEnoughReplicas"
        /\ ~call'.nil
        /\ GetTotalVReplicas(returned'[call'.vpod]) = GetTotalVReplicas(committed[call'.vpod])
        /\ \A o \in Ords : PlacedAt(returned'[call'.vpod], o) = CommittedAt(call'.vpod, o)
        /\ call'.vpod \in DOMAIN pending'
        /\ pending'[call'.vpod] = call'.desired - GetTotalVReplicas(committed[call'.vpod])]_vars

\* ------------------------------------------------------ snapshot content
Largest(S) == CHOOSE x \in S : \A y \in S : y <= x

\* the workers the listing mentions
Mentioned == UNION {PlacedOrds(committed[v]) : v \in DOMAIN committed}

\* vreplicas of the placement list ps on worker o, over all its entries
RECURSIVE ListedOn(_, _, _)
ListedOn(ps, o, i) ==
  IF i > Len(ps) THEN 0
  ELSE (IF ps[i].ord = o THEN ps[i].vr ELSE 0) + ListedOn(ps, o, i + 1)

RECURSIVE ListedTotal(_, _)
ListedTotal(S, o) ==
  IF S = {} THEN 0
  ELSE LET v == CHOOSE x \in S : TRUE
       IN ListedOn(committed[v], o, 1) + ListedTotal(S \ {v}, o)

\* C21: with an empty reservation table FreeCap has one entry per worker up to
\* the highest one mentioned, each the capacity minus the vreplicas listed on
\* the worker over all vpods, and LastOrdinal is the largest worker whose
\* entry differs from the capacity, -1 when there is none
C21_SnapshotContent ==
  (call.op = "State" /\ call.reservedIn = EmptyMap) =>
    LET st == call.st
        used == {i \in 0..(Len(st.FreeCap) - 1) : st.FreeCap[i + 1] # Capacity}
    IN /\ Len(st.FreeCap) = IF Mentioned = {} THEN 0 ELSE Largest(Mentioned) + 1
       /\ \A i \in 0..(Len(st.FreeCap) - 1) :
             st.FreeCap[i + 1] = Capacity - ListedTotal(DOMAIN committed, i)
       /\ st.LastOrdinal = IF used = {} THEN -1 ELSE Largest(used)

\* the highest worker mentioned carries no vreplica, a lower one does
C21_Witness ==
  /\ call.op = "State" /\ call.reservedIn = EmptyMap
  /\ call.st.LastOrdinal >= 0
  /\ call.st.LastOrdinal < Len(call.st.FreeCap) - 1
  /\ \E i \in 1..Len(call.st.FreeCap) : call.st.FreeCap[i] < 0

\* ------------------------------------------------------- domain counting
\* the nodes that are schedulable and carry the zone label
LabelledNodes == {n \in DOMAIN nodes : ~nodes[n].unsched /\ nodes[n].zone # 0}

\* C22: under the spread policies NodeToZoneMap holds exactly the schedulable
\* nodes with a zone label, NumNodes counts them and NumZones their distinct
\* zones; under the other policy types both counts are 0
C22_DomainCounting ==
  call.op = "State" =>
    IF SpreadPolicy
    THEN /\ DOMAIN call.st.NodeToZoneMap = LabelledNodes
         /\ \A n \in LabelledNodes : call.st.NodeToZoneMap[n] = nodes[n].zone
         /\ call.st.NumNodes = Cardinality(LabelledNodes)
         /\ call.st.NumZones = Cardinality({nodes[n].zone : n \in LabelledNodes})
    ELSE call.st.NumNodes = 0 /\ call.st.NumZones = 0

\* a labelled node that is unschedulable next to a counted one
C22_Witness ==
  /\ call.op = "State" /\ SpreadPolicy
  /\ call.st.NumNodes = 1 /\ call.st.NumZones = 1
  /\ \E n \in DOMAIN nodes : nodes[n].unsched /\ nodes[n].zone # 0

\* two counted nodes in one zone
C22_WitnessZone ==
  /\ call.op = "State" /\ SpreadPolicy
  /\ call.st.NumNodes = 2 /\ call.st.NumZones = 1

\* the inventory is not consulted
C22_WitnessFill ==
  /\ call.op = "State" /\ ~SpreadPolicy /\ LabelledNodes # {}

\* ------------------------------------------------------------ worker names
\* the number a digit string denotes
RECURSIVE Denotes(_, _)
Denotes(ds, n) ==
  IF Len(ds) = 1 THEN n < 10 /\ ds[1] = Digits[n + 1]
  ELSE /\ Len(ds) > 1
       /\ ds[Len(ds)] = Digits[(n % 10) + 1]
       /\ Denotes(SubSeq(ds, 1, Len(ds) - 1), n \div 10)

\* C23: decoding the name made of the pool name p and the ordinal n >= 0 gives
\* n back, and the name is p, then '-', then the decimal form of n without
\* leading zeros
C23_RoundTrip ==
  (call.op = "roundTrip" /\ call.ordinal >= 0) =>
    /\ call.decoded = call.ordinal
    /\ LET lp == Len(call.pool)
           ds == SubSeq(call.name, lp + 2, Len(call.name))
       IN /\ Len(call.name) > lp + 1
          /\ SubSeq(call.name, 1, lp) = call.pool
          /\ call.name[lp + 1] = "-"
          /\ Denotes(ds, call.ordinal)
          /\ ds[1] = "0" => Len(ds) = 1

\* a pool name with a '-' of its own and an ordinal of several digits
C23_Witness ==
  /\ call.op = "roundTrip"
  /\ \E i \in 1..Len(call.pool) : call.pool[i] = "-"
  /\ call.ordinal >= 10
  /\ call.decoded = call.ordinal

\* the part of a worker name after its last '-' is no 32-bit decimal integer
Unparseable(podName) ==
  ParseInt(SubSeq(podName, LastIndex(podName) + 2, Len(podName))).err

\* the worker names of the list that can be parsed
Parseable(podNames) == SelectSeq(podNames, LAMBDA w : ~Unparseable(w))

\* C24: a worker name that cannot be parsed decodes to MaxInt32, and a state
\* build over placements with such names does not fail and gives the FreeCap
\* it gives without them
C24_Tolerated ==
  /\ (call.op = "ordinalFromPodName" /\ Unparseable(call.name)) => call.ordinal = MaxInt32
  /\ call.op = "StateNamed" =>
       /\ ~call.out.panic
       /\ call.out.top = updateFreeCapacityTop(Parseable(call.names), 1,
                                                [panic |-> FALSE, top |-> -1]).top

\* C25: statefulSetName gives the pool name back from the name made of the
\* pool name and an ordinal n >= 0
C25_PoolName ==
  (call.op = "statefulSetName" /\ call.ordinal >= 0) =>
    /\ ~call.stripped.panic
    /\ call.stripped.value = call.pool

\* ------------------------------------------------------------ status merge
\* how often the reason r occurs in the sequence of reasons
Occurrences(reasons, r) == Cardinality({i \in 1..Len(reasons) : reasons[i] = r})

RECURSIVE OccurrencesIn(_, _, _)
OccurrencesIn(statuses, S, r) ==
  IF S = {} THEN 0
  ELSE LET n == CHOOSE x \in S : TRUE
       IN Occurrences(statuses[n].reasons, r) + OccurrencesIn(statuses, S \ {n}, r)

AllReasons == UNION {{st.reasons[i] : i \in 1..Len(st.reasons)} : st \in StatusInputs}

\* C26: the merged status of a non-empty map has the highest code of the
\* inputs and all their reasons; it is a success iff every input is one and
\* carries an error iff some input has the code Error; the merged status of an
\* empty map is the nil status, a success
C26_Merge ==
  call.op = "Merge" =>
    LET p == call.statuses
        m == call.merged
    IN IF DOMAIN p = {} THEN m.nil /\ IsSuccess(m)
       ELSE /\ ~m.nil
            /\ \E n \in DOMAIN p : m.code = p[n].code
            /\ \A n \in DOMAIN p : p[n].code <= m.code
            /\ \A r \in AllReasons :
                  Occurrences(m.reasons, r) = OccurrencesIn(p, DOMAIN p, r)
            /\ IsSuccess(m) <=> \A n \in DOMAIN p : IsSuccess(p[n])
            /\ m.err <=> \E n \in DOMAIN p : p[n].code = Error

\* an error, an unschedulable and a successful status are merged
C26_Witness ==
  /\ call.op = "Merge"
  /\ {call.statuses[n].code : n \in DOMAIN call.statuses} = {Success, Unschedulable, Error}
  /\ call.merged.code = Error
  /\ Len(call.merged.reasons) > 2

\* ------------------------------------------------- lowest ordinal priority
\* (lastOrdinal + 2) * 100 - ord is negative, said on quotients of 100 so that
\* no product is formed
ScoreNegative(lastOrdinal, ord) ==
  \/ lastOrdinal - (ord \div 100) < -2
  \/ lastOrdinal - (ord \div 100) = -2 /\ (ord % 100) > 0

\* score is the integer (lastOrdinal + 2) * 100 - ord, said on its quotient
\* and remainder by 100
ScoreExact(lastOrdinal, ord, score) ==
  /\ score % 100 = (100 - (ord % 100)) % 100
  /\ (score \div 100) - (IF ord % 100 = 0 THEN 2 ELSE 1) = lastOrdinal - (ord \div 100)

\* C27: Score returns the integer (lastOrdinal + 2) * 100 - ord with Success
\* when it is not negative, and 0 with Error when it is negative
C27_Score ==
  call.op = "Score" =>
    IF ScoreNegative(call.lastOrdinal, call.podID)
    THEN call.result = [score |-> 0, code |-> Error]
    ELSE /\ call.result.code = Success
         /\ ScoreExact(call.lastOrdinal, call.podID, call.result.score)

\* the same for the last ordinals whose product with 100 fits 32 bits
C27_ScoreSmall ==
  call.op = "Score" /\ call.lastOrdinal <= MaxInt32 \div 100 - 2 => C27_Score

\* ------------------------------------------------- grown or shrunk, not moved
\* the vreplicas that the entries of a placement list give to the worker o
RECURSIVE WorkerTotal(_, _, _)
WorkerTotal(ps, o, i) ==
  IF i > Len(ps) THEN 0
  ELSE (IF ps[i].ord = o THEN ps[i].vr ELSE 0) + WorkerTotal(ps, o, i + 1)

\* the last call returned a placement list for a vpod whose committed total
\* differs from the desired number
ScaleUpCall ==
  /\ call.op = "Schedule" /\ ~call.nil
  /\ call.desired > GetTotalVReplicas(committed[call.vpod])

ScaleDownCall ==
  /\ call.op = "Schedule" /\ ~call.nil
  /\ call.desired < GetTotalVReplicas(committed[call.vpod])

\* scale-up: no worker has fewer vreplicas in the returned list than in
\* the committed one, and every committed worker is in the returned list
C28_OnlyGrown ==
  ScaleUpCall =>
    LET c == committed[call.vpod]
        r == returned[call.vpod]
    IN /\ \A o \in PlacedOrds(c) : WorkerTotal(r, o, 1) >= WorkerTotal(c, o, 1)
       /\ PlacedOrds(c) \subseteq PlacedOrds(r)

\* scale-down: no worker has more vreplicas in the returned list than in
\* the committed one, and every worker of the returned list is a committed one
C28_OnlyShrunk ==
  ScaleDownCall =>
    LET c == committed[call.vpod]
        r == returned[call.vpod]
    IN /\ \A o \in PlacedOrds(r) : WorkerTotal(r, o, 1) <= WorkerTotal(c, o, 1)
       /\ PlacedOrds(r) \subseteq PlacedOrds(c)

\* C28: placements are grown or shrunk, never moved: a scale-up lowers no
\* worker and drops none, a scale-down raises no worker and adds none
C28_NeverMoved == C28_OnlyGrown /\ C28_OnlyShrunk

\* a scale-down dropped one committed worker and lowered another
C28_Witness ==
  /\ ScaleDownCall
  /\ \E o \in PlacedOrds(committed[call.vpod]) : o \notin PlacedOrds(returned[call.vpod])
  /\ \E o \in PlacedOrds(returned[call.vpod]) :
       WorkerTotal(returned[call.vpod], o, 1) < WorkerTotal(committed[call.vpod], o, 1)

\* a scale-up raised a committed worker and added a new one
C28_WitnessUp ==
  /\ ScaleUpCall
  /\ \E o \in PlacedOrds(returned[call.vpod]) : o \notin PlacedOrds(committed[call.vpod])
  /\ \E o \in PlacedOrds(committed[call.vpod]) :
       WorkerTotal(returned[call.vpod], o, 1) > WorkerTotal(committed[call.vpod], o, 1)

\* ------------------------------------------------------ autoscaler shrink
\* some vpod has a placement on an ordinal >= target
StrandedLeft(target) ==
  \E v \in VPods : \E i \in 1..Len(committed[v]) : committed[v][i].ord >= target

\* the pool is made smaller only by a tick whose target is the new size and
\* only when no placement is left on an ordinal >= target
ShrinkAfterEvictions ==
  [][replicas' < replicas =>
       /\ call.op = "tick" /\ replicas' = call.target /\ ~call.aborted
       /\ ~StrandedLeft(call.target)]_vars

\* placements are evicted only by a tick whose target is below the size of the pool
EvictOnlyToShrink ==
  [][committed' # committed =>
       call.op = "tick" /\ call.target < call.before /\ replicas = call.before]_vars

\* a tick that is over: after a failed eviction the pool has the size it had,
\* otherwise it has the target size when that differs from the size before;
\* a tick that grew the pool evicted nothing
TickOutcome ==
  call.op = "tick" /\ call.phase = "done" =>
    /\ call.aborted => replicas = call.before /\ call.target < call.before
    /\ ~call.aborted => replicas = call.target
    /\ call.target >= call.before => call.evicted = 0

\* C29: the autoscaler evicts every placement on an ordinal >= target before
\* it makes the pool smaller; a failed eviction leaves the size of the pool as
\* it was and another tick follows; a tick that grows the pool evicts nothing
C29_ShrinkOrdering ==
  /\ ShrinkAfterEvictions
  /\ EvictOnlyToShrink
  /\ []TickOutcome
  /\ \A n \in {0, 1} :
       (call.op = "tick" /\ call.aborted /\ call.n = n)
         ~> (call.op = "tick" /\ call.n = 1 - n)

\* a tick made the pool smaller after two evictions
C29_Witness ==
  /\ call.op = "tick" /\ call.phase = "done" /\ ~call.aborted
  /\ call.evicted >= 2
  /\ replicas = call.target /\ call.target < call.before

\* a tick gave up its shrink after one eviction succeeded and the next failed
C29_WitnessAborted ==
  /\ call.op = "tick" /\ call.aborted /\ call.evicted = 1
  /\ StrandedLeft(call.target)

\* ------------------------------------------------- MAXFILLUP scale-up order
\* the free capacity of a worker in the snapshot of the call, none when the
\* worker is overcommitted
FreeOf(o) == Max(0, Free(call.st, o))

\* what the k-th returned placement holds more than the placement it copies
GainAt(k) ==
  call.ps[k].vr - (IF k <= Len(call.placements) THEN call.placements[k].vr ELSE 0)

RECURSIVE GainBefore(_)
GainBefore(k) == IF k <= 1 THEN 0 ELSE GainAt(k - 1) + GainBefore(k - 1)

\* what the worker o received from the call
GainOf(o) == WorkerTotal(call.ps, o, 1) - WorkerTotal(call.placements, o, 1)

\* C30: addReplicas copies the existing placements in list order, each with
\* min(free, still needed) more vreplicas, then appends placements for the
\* ordinals 0..replicas-1 in ascending order, each worker with free capacity
\* receiving min(free, still needed); a worker without a prior placement
\* receives vreplicas only when no worker carrying the vpod has capacity left,
\* and only when no scanned ordinal below it has; an empty pool of one worker
\* with capacity 10 and one vreplica to add gives one vreplica on worker 0
C30_FillOrder ==
  call.op = "addReplicas" =>
    LET c == call.placements
        r == call.ps
        new == (Len(c) + 1)..Len(r)
    IN /\ Len(r) >= Len(c)
       /\ \A k \in 1..Len(c) :
            /\ r[k].ord = c[k].ord
            /\ GainAt(k) = Min(FreeOf(c[k].ord), call.diff - GainBefore(k))
       /\ \A k \in new :
            /\ r[k].ord \in 0..(call.reps - 1)
            /\ k > Len(c) + 1 => r[k - 1].ord < r[k].ord
            /\ GainAt(k) > 0
            /\ GainAt(k) = Min(FreeOf(r[k].ord) - (GainOf(r[k].ord) - GainAt(k)),
                               call.diff - GainBefore(k))
            /\ \A i \in 1..Len(c) : FreeOf(c[i].ord) = GainAt(i)
            /\ \A o \in 0..(r[k].ord - 1) : FreeOf(o) = GainOf(o)
       /\ call.left = call.diff - GainBefore(Len(r) + 1)
       /\ call.left > 0 => \A o \in 0..(call.reps - 1) : FreeOf(o) = GainOf(o)
       /\ (call.st.FreeCap = <<>> /\ call.st.Capacity = 10 /\ call.reps = 1
            /\ call.diff = 1 /\ c = <<>>)
          => r = <<[ord |-> 0, vr |-> 1]>> /\ call.left = 0

\* a call filled an existing placement and went on to a further worker,
\* passing a full one
C30_Witness ==
  /\ call.op = "addReplicas"
  /\ Len(call.placements) >= 1 /\ GainAt(1) > 0
  /\ Len(call.ps) >= Len(call.placements) + 1
  /\ \E o \in 0..(call.ps[Len(call.ps)].ord - 1) : GainOf(o) = 0

\* the example: an empty pool of one worker with capacity 10
C30_WitnessExample ==
  /\ call.op = "addReplicas"
  /\ call.st.FreeCap = <<>> /\ call.st.Capacity = 10 /\ call.reps = 1
  /\ call.diff = 1 /\ call.placements = <<>>
  /\ call.ps = <<[ord |-> 0, vr |-> 1]>>

\* ------------------------------------------------------ MAXFILLUP scale-down
\* the vreplicas of the placements after the k-th
RECURSIVE SumAfter(_, _)
SumAfter(ps, k) == IF k >= Len(ps) THEN 0 ELSE ps[k + 1].vr + SumAfter(ps, k + 1)

\* the last call was a scale-down under MAXFILLUP
FillUpScaleDown == ScaleDownCall /\ policyType = "MAXFILLUP"

\* C31: a MAXFILLUP scale-down removes the surplus from the last placement on:
\* the placements after some k-th are gone, their vreplicas at most the
\* surplus, the k-th is lowered by the rest of the surplus, which is less than
\* its vreplicas, the placements before it are as committed, and the returned
\* total is the desired number
C31_ScaleDown ==
  FillUpScaleDown =>
    LET c == committed[call.vpod]
        r == returned[call.vpod]
        surplus == GetTotalVReplicas(c) - call.desired
    IN /\ GetTotalVReplicas(r) = call.desired
       /\ call.err = "nil"
       /\ \E k \in 0..Len(c) :
            LET rest == surplus - SumAfter(c, k)
            IN /\ rest >= 0
               /\ k = 0 => rest = 0 /\ r = <<>>
               /\ k > 0 =>
                    /\ rest < c[k].vr
                    /\ r = SubSeq(c, 1, k - 1)
                            \o <<[ord |-> c[k].ord, vr |-> c[k].vr - rest]>>

\* a scale-down removed the last placement and lowered the one before it
C31_Witness ==
  /\ FillUpScaleDown
  /\ Len(committed[call.vpod]) = 2 /\ Len(returned[call.vpod]) = 1
  /\ returned[call.vpod][1].vr < committed[call.vpod][1].vr

\* ---------------------------------------------- EVENSPREAD scale-up (C32)
SpreadCall == call.op = "addReplicasEvenSpread"

RECURSIVE SumInts(_)
SumInts(s) == IF s = <<>> THEN 0 ELSE Head(s) + SumInts(Tail(s))

\* what the k-th returned placement has more than the given list had on its worker
SpreadGain(k) == call.ps[k].vr - PlacedAt(call.placements, call.ps[k].ord)

RECURSIVE SpreadGainBefore(_)
SpreadGainBefore(k) ==
  IF k <= 1 THEN 0 ELSE SpreadGain(k - 1) + SpreadGainBefore(k - 1)

\* the total of domain d over the first k returned placements
RECURSIVE SpreadTotalUpTo(_, _)
SpreadTotalUpTo(d, k) ==
  IF k < 1 THEN 0
  ELSE (IF DomainOf(call.st, call.ps[k].ord) = d THEN call.ps[k].vr ELSE 0)
       + SpreadTotalUpTo(d, k - 1)

\* the total of domain d in the given list
SpreadTotalIn(d) ==
  SumInts([i \in 1..Len(call.placements) |->
            IF DomainOf(call.st, call.placements[i].ord) = d
            THEN call.placements[i].vr ELSE 0])

\* the total of the domain of the k-th returned placement when its turn came:
\* the given total and what the placements before it gained in that domain
SpreadTotalBefore(k) ==
  LET d == DomainOf(call.st, call.ps[k].ord)
  IN SpreadTotalIn(d)
     + SumInts([j \in 1..(k - 1) |->
                 IF DomainOf(call.st, call.ps[j].ord) = d THEN SpreadGain(j) ELSE 0])

\* min(still needed, free capacity, spread value minus the domain's total)
SpreadAllocation(need, f, tot) ==
  IF need > 0 /\ f > 0 /\ tot < call.evenSpread
  THEN Min(need, Min(f, call.evenSpread - tot)) ELSE 0

SpreadDomains ==
  {DomainOf(call.st, o) : o \in 0..MaxReplicas}

\* the workers the new placements are on
SpreadNewOrds ==
  {call.ps[k].ord : k \in (Len(call.placements) + 1)..Len(call.ps)}

\* the position of the new placement on worker o
SpreadNewAt(o) ==
  CHOOSE k \in (Len(call.placements) + 1)..Len(call.ps) : call.ps[k].ord = o

\* what is still needed, and the total of the domain of worker o, when the
\* pass over the ordinals reaches o
SpreadNeedAt(o) ==
  call.diff - SpreadGainBefore(Len(call.placements) + 1)
  - SumInts([k \in 1..(Len(call.ps) - Len(call.placements)) |->
              LET p == call.ps[Len(call.placements) + k]
              IN IF p.ord < o THEN p.vr ELSE 0])

SpreadTotalAt(o) ==
  SpreadTotalUpTo(DomainOf(call.st, o), Len(call.placements))
  + SumInts([k \in 1..(Len(call.ps) - Len(call.placements)) |->
              LET p == call.ps[Len(call.placements) + k]
              IN IF p.ord < o /\ DomainOf(call.st, p.ord) = DomainOf(call.st, o)
                 THEN p.vr ELSE 0])

\* C32: in a scale-up under a spread policy a domain at or above the spread
\* value gets nothing and a domain below it is never taken above it; the
\* returned list is the given placements grouped by domain in ascending
\* domain name, each raised by min(still needed, free capacity, spread value
\* minus the domain's total), followed by the workers 0..replicas-1 in
\* ascending order that such an allocation gives something to; what is left
\* is what was needed minus what was given
C32_SpreadUp ==
  SpreadCall =>
    LET n == Len(call.placements)
        m == Len(call.ps)
    IN /\ \A d \in SpreadDomains :
            /\ SpreadTotalIn(d) >= call.evenSpread => SpreadTotalUpTo(d, m) = SpreadTotalIn(d)
            /\ SpreadTotalIn(d) < call.evenSpread => SpreadTotalUpTo(d, m) <= call.evenSpread
       /\ m >= n
       /\ {call.ps[k].ord : k \in 1..n} = PlacedOrds(call.placements)
       /\ \A i, j \in 1..n :
            i < j =>
              \/ DomainOf(call.st, call.ps[i].ord) < DomainOf(call.st, call.ps[j].ord)
              \/ /\ DomainOf(call.st, call.ps[i].ord) = DomainOf(call.st, call.ps[j].ord)
                 /\ call.ps[i].ord < call.ps[j].ord
       /\ \A k \in 1..n :
            SpreadGain(k) = SpreadAllocation(call.diff - SpreadGainBefore(k),
                                             Free(call.st, call.ps[k].ord),
                                             SpreadTotalBefore(k))
       /\ \A i, j \in (n + 1)..m : i < j => call.ps[i].ord < call.ps[j].ord
       /\ SpreadNewOrds \subseteq (0..(call.reps - 1)) \ PlacedOrds(call.placements)
       /\ \A o \in (0..(call.reps - 1)) \ PlacedOrds(call.placements) :
            LET a == IF getPodInfo(call.st, o).err THEN 0
                     ELSE SpreadAllocation(SpreadNeedAt(o), Free(call.st, o),
                                           SpreadTotalAt(o))
            IN /\ o \in SpreadNewOrds <=> a > 0
               /\ o \in SpreadNewOrds => call.ps[SpreadNewAt(o)].vr = a
       /\ call.left = call.diff - SpreadGainBefore(m + 1)

\* a placement was raised, a new worker got less than it had free and than
\* was needed because its domain reached the spread value, and a part of what
\* was needed is left
C32_Witness ==
  /\ SpreadCall
  /\ \E k \in 1..Len(call.placements) : SpreadGain(k) > 0
  /\ \E k \in (Len(call.placements) + 1)..Len(call.ps) :
       /\ call.ps[k].vr < Free(call.st, call.ps[k].ord)
       /\ call.ps[k].vr < call.left + call.ps[k].vr
  /\ call.left > 0

\* a domain at the spread value was passed over although a worker of it had room
C32_WitnessSkipped ==
  /\ SpreadCall
  /\ call.left > 0
  /\ \E o \in 0..(call.reps - 1) :
       /\ Free(call.st, o) > 0 /\ ~getPodInfo(call.st, o).err
       /\ o \notin PlacedOrds(call.ps)
       /\ SpreadTotalIn(DomainOf(call.st, o)) >= call.evenSpread

\* -------------------------------------------- EVENSPREAD scale-down (C33)
\* C33: a scale-down under a spread policy with D >= 1 domains and spread
\* value floor(desired / D) returns placements that total the desired number,
\* raises no worker, leaves a domain that was at or above the spread value at
\* or above it and a domain below it as it was, takes from a domain only when
\* the domains before it in name order are down to the spread value, and
\* within a domain lowers a worker only when the workers after it are gone
C33_SpreadDown ==
  [][(/\ ncalls' = ncalls + 1
      /\ call'.op = "Schedule"
      /\ SpreadPolicy
      /\ call'.path = "down"
      /\ Cardinality(Domains) >= 1)
     => LET c == committed[call'.vpod]
            r == returned'[call'.vpod]
            spreadVal == call'.desired \div Cardinality(Domains)
        IN /\ ~call'.nil /\ call'.err = "nil"
           /\ GetTotalVReplicas(r) = call'.desired
           /\ \A o \in Ords : PlacedAt(r, o) <= PlacedAt(c, o)
           /\ \A d \in Domains :
                /\ CarriedIn(c, d) >= spreadVal => CarriedIn(r, d) >= spreadVal
                /\ CarriedIn(c, d) < spreadVal => CarriedIn(r, d) = CarriedIn(c, d)
                /\ \A e \in Domains :
                     d < e /\ CarriedIn(r, e) < CarriedIn(c, e) => CarriedIn(r, d) <= spreadVal
                /\ \A o, q \in WorkersOf(d) :
                     o < q /\ PlacedAt(r, o) < PlacedAt(c, o) => PlacedAt(r, q) = 0]_vars

\* ------------------------------------ predicate/priority selection (C34)
\* the ordinals of the pool on which every filter plugin of the policy
\* returns Success
RuleFeasible(st) ==
  {o \in 0..(replicas - 1) :
     \A i \in 1..Len(policy.Predicates) :
        policy.Predicates[i] \in RegisteredFilterPlugins
          => runFilterPlugin(policy.Predicates[i], st, o) = Success}

\* the sum over the score plugins of the policy of score times weight
RECURSIVE RuleScore(_, _, _)
RuleScore(st, o, i) ==
  IF i > Len(policy.Priorities) THEN 0
  ELSE runScorePlugin(policy.Priorities[i].Name, st, o).score * policy.Priorities[i].Weight
       + RuleScore(st, o, i + 1)

\* the feasible ordinals of maximal score (every feasible ordinal scores 1
\* when the policy has no priorities)
RuleBest(st) ==
  {o \in RuleFeasible(st) :
     \A q \in RuleFeasible(st) : RuleScore(st, q, 1) <= RuleScore(st, o, 1)}

\* one more vreplica on worker o
RulePut(ps, o) ==
  IF o \in PlacedOrds(ps)
  THEN [i \in 1..Len(ps) |-> IF ps[i].ord = o THEN [ord |-> o, vr |-> ps[i].vr + 1]
                              ELSE ps[i]]
  ELSE Append(ps, [ord |-> o, vr |-> 1])

\* what the rule allows for k vreplicas of vpod v, from the placements ps and
\* the reservation table res: the placements and the number left pending
RECURSIVE RuleOutcomes(_, _, _, _)
RuleOutcomes(v, ps, res, k) ==
  IF k <= 0 THEN {[ps |-> ps, left |-> 0]}
  ELSE UNION {
         IF RuleFeasible(so.st) = {}
         THEN {[ps |-> ps, left |-> k]}
         ELSE UNION {RuleOutcomes(v, RulePut(ps, o),
                                  reservePlacements(v, committed[v], RulePut(ps, o), so.reserved),
                                  k - 1)
                     : o \in RuleBest(so.st)}
         : so \in State(committed, res, policyType, nodes)}

\* C34: in predicate/priority mode every vreplica of a scale-up goes to a
\* feasible ordinal (one on which every filter of the policy returns Success
\* in the snapshot taken for it) of maximal weighted score sum, the only
\* feasible one when there is one; when there is none, it and the vreplicas
\* after it become pending and the placements made before are returned
\* (calls in which a score plugin returned Error are left aside)
C34_Selection ==
  [][(/\ ncalls' = ncalls + 1
      /\ call'.op = "Schedule"
      /\ policyType = "" /\ ~policy.nil
      /\ call'.path = "up"
      /\ ~call'.pluginError)
     => LET v == call'.vpod
            k == call'.desired - GetTotalVReplicas(committed[v])
            r == IF call'.nil THEN <<>> ELSE returned'[v]
            left == IF v \in DOMAIN pending' THEN pending'[v] ELSE 0
        IN /\ \E so \in State(committed, reserved, policyType, nodes) :
                \E a \in RuleOutcomes(v, committed[v], so.reserved, k) :
                   /\ a.left = left
                   /\ Len(a.ps) = Len(r)
                   /\ \A o \in PlacedOrds(a.ps) \cup PlacedOrds(r) :
                        PlacedAt(a.ps, o) = PlacedAt(r, o)
           /\ (left > 0) = (call'.err = "ErrNotEnoughReplicas")
           /\ (left = 0) = (call'.err = "nil")]_vars

\* a call placed one vreplica on a worker that was not the only feasible one,
\* found no feasible worker for the next and left it pending
C34_Witness ==
  /\ call.op = "Schedule" /\ policyType = "" /\ ~policy.nil /\ call.path = "up"
  /\ ~call.nil /\ ~call.pluginError
  /\ replicas = 2
  /\ call.vpod \in DOMAIN pending /\ pending[call.vpod] = 1
  /\ GetTotalVReplicas(returned[call.vpod])
       > GetTotalVReplicas(committed[call.vpod])
  /\ PlacedAt(returned[call.vpod], 1) > PlacedAt(committed[call.vpod], 1)

\* with no priorities in the policy a vreplica went to the higher of two
\* feasible workers
C34_WitnessTie ==
  /\ call.op = "Schedule" /\ policyType = "" /\ ~policy.nil /\ call.path = "up"
  /\ Len(policy.Priorities) = 0
  /\ replicas = 2 /\ call.err = "nil"
  /\ \A v \in VPods : committed[v] = <<>>
  /\ returned[call.vpod] = <<[ord |-> 1, vr |-> 1]>>

\* --------------------------------------- re-snapshot per vreplica (C35)
\* what the snapshot at the start of a call counts for vpod v on worker o:
\* the reservation when there is one, the committed vreplicas otherwise
CountedAt(v, o) ==
  IF HasReservation(reserved, v, o) THEN reserved[v][o] ELSE CommittedAt(v, o)

\* C35: a Schedule call in predicate/priority mode places on no worker more
\* vreplicas than the worker had free in the snapshot taken at the start of
\* the call: every vreplica placed is taken off the free capacity the later
\* vreplicas of the call see, on a worker the vpod is committed on as on a
\* new one (what the call places is what the returned list has above what the
\* snapshot counted for the vpod)
C35_Resnapshot ==
  [][(/\ ncalls' = ncalls + 1
      /\ call'.op = "Schedule"
      /\ policyType = "" /\ ~policy.nil
      /\ call'.path = "up"
      /\ ~call'.nil)
     => \E so \in State(committed, reserved, policyType, nodes) :
          \A o \in PlacedOrds(returned'[call'.vpod]) :
             PlacedAt(returned'[call'.vpod], o) > CommittedAt(call'.vpod, o)
               => PlacedAt(returned'[call'.vpod], o) - CountedAt(call'.vpod, o)
                    <= Max(0, Free(so.st, o))]_vars

\* ------------------------------------------- reservation recording (C36)
\* the workers on which the returned list r has more than vpod v has committed
Increased(v, r) == {o \in PlacedOrds(r) : PlacedAt(r, o) > CommittedAt(v, o)}

\* the entry (k, w) of the table equals the vreplicas the listing commits
ConvergedEntry(k, w) ==
  HasReservation(reserved, k, w) /\ HasPlacement(k, w) /\ reserved[k][w] = CommittedAt(k, w)

\* the entry (k, w) is the same before and after the step
SameEntry(k, w) ==
  /\ HasReservation(reserved', k, w) = HasReservation(reserved, k, w)
  /\ HasReservation(reserved, k, w) => reserved'[k][w] = reserved[k][w]

ReturnsList ==
  ncalls' = ncalls + 1 /\ call'.op = "Schedule" /\ ~call'.nil

\* C36 as stated: when Schedule returns a list, the entry of every placement
\* above the committed value holds the full returned value, and every other
\* entry of the table is as it was before the call
C36_RecordingOnly ==
  [][ReturnsList =>
       \A k \in VPods, w \in Ords :
          IF k = call'.vpod /\ w \in Increased(k, returned'[k])
          THEN HasReservation(reserved', k, w) /\ reserved'[k][w] = PlacedAt(returned'[k], w)
          ELSE SameEntry(k, w)]_vars

\* C36, amended: when Schedule returns a list, the entry of every placement
\* above the committed value holds the full returned value, the other
\* entries that equalled the committed vreplicas of their vpod and worker
\* are gone, and every other entry is as it was before the call
C36_Recording ==
  [][ReturnsList =>
       \A k \in VPods, w \in Ords :
          IF k = call'.vpod /\ w \in Increased(k, returned'[k])
          THEN HasReservation(reserved', k, w) /\ reserved'[k][w] = PlacedAt(returned'[k], w)
          ELSE IF ConvergedEntry(k, w) THEN ~HasReservation(reserved', k, w)
          ELSE SameEntry(k, w)]_vars

\* a call raised a committed placement and recorded the full value while the
\* other vpod kept a reservation that was not committed
C36_Witness ==
  /\ call.op = "Schedule" /\ ~call.nil
  /\ \E w \in Increased(call.vpod, returned[call.vpod]) :
       /\ CommittedAt(call.vpod, w) > 0
       /\ HasReservation(reserved, call.vpod, w)
       /\ reserved[call.vpod][w] = PlacedAt(returned[call.vpod], w)
  /\ \E k \in VPods \ {call.vpod}, w \in Ords :
       HasReservation(reserved, k, w) /\ reserved[k][w] # CommittedAt(k, w)

\* ------------------------------------------ success means scheduled (C37)
\* C37: a Schedule call that returns no error returns placements that total
\* the desired vreplicas of the vpod, in every mode
C37_SuccessIsComplete ==
  (call.op = "Schedule" /\ call.err = "nil")
    => (IF call.nil THEN 0 ELSE GetTotalVReplicas(returned[call.vpod])) = call.desired

\* ---------------------------------------------------- retry stability (C38)
\* C38: a Schedule call that follows a Schedule call for the same vpod with
\* the same desired vreplicas, nothing having happened in between, returns
\* the same placements and the same error, and leaves pending[vpod] and the
\* reservation table as the first call left them
C38_RetryStable ==
  [][(/\ call.op = "Schedule"
      /\ ncalls' = ncalls + 1
      /\ call'.op = "Schedule"
      /\ call'.vpod = call.vpod
      /\ call'.desired = call.desired)
     => /\ call'.nil = call.nil
        /\ call'.err = call.err
        /\ ~call.nil => returned'[call.vpod] = returned[call.vpod]
        /\ PendingOf(call.vpod)' = PendingOf(call.vpod)
        /\ reserved' = reserved]_vars

\* ------------------------------------------- no growth outside the pool (C39)
\* C39: a Schedule call raises the vreplicas of the vpod on no worker whose
\* ordinal is at or above the cached replicas count, whether the vpod is
\* committed there or not; with replicas = 0 what is needed becomes pending
C39_InsidePool ==
  [][(/\ ncalls' = ncalls + 1
      /\ call'.op = "Schedule"
      /\ ~call'.nil)
     => LET v == call'.vpod
            needed == call'.desired - GetTotalVReplicas(committed[v])
        IN /\ \A o \in PlacedOrds(returned'[v]) :
                o >= replicas => PlacedAt(returned'[v], o) <= CommittedAt(v, o)
           /\ (replicas = 0 /\ needed > 0) => v \in DOMAIN pending' /\ pending'[v] = needed]_vars

====
